---- MODULE Spec2Model ----
(***************************************************************************)
(* GeoGridTrainer: scripts/geogrid_fetch_and_build.py                      *)
(*                                                                         *)
(* The script mirrors the GeoGrid CDN into "raw data/cdn" and exports      *)
(* cleaned CSV tables.  This module models                                 *)
(*   - the mirror loops (mirror_boards and, in the run, the other mirrors) *)
(*   - the sequence of stages of main() and its verification step          *)
(*   - the name index, the answer resolution and the board cells           *)
(*   - the rarity score of export_ui_countries_csv                         *)
(* Files of the mirror are modelled by the kind of document they hold.     *)
(***************************************************************************)
EXTENDS Integers, Sequences, FiniteSets, TLC

(***************************************************************************)
(* Bounds of the model.                                                    *)
(***************************************************************************)
\* largest target id given to mirror_boards when it is run on its own
MaxTarget == 11
\* largest target id for which mirror_boards starts from an arbitrary mirror
PreTarget == 5
\* a run of main() takes place at most MaxDay days after the epoch date
MaxDay == 1
\* longest reference list given to build_name_to_code_maps
MaxEntities == 2
\* most names of the cell resolved against those reference lists
MaxAnswers == 2
\* most board files, cells and names of the run over the board files
MaxBoards == 2
MaxCells == 2
MaxNames == 2
\* most rows of geogrid_board_cells.csv read for the rarity score
MaxCsvRows == 2
\* the nesting depth of the documents flatten_for_csv is applied to
MaxDepth == 3
\* most rows given to write_csv
MaxWriteRows == 2
\* the nesting depth of the values given to json_dumps_stable
MaxNesting == 2

(***************************************************************************)
(* Program constants.                                                      *)
(***************************************************************************)
\* "board_id >= latest_board_id - 7"
EarlyStopWindow == 7
\* "consecutive_misses >= 3"
EarlyStopMisses == 3
\* GEOGRID_START_DATE = dt.date(2024, 4, 7), as date.toordinal()
GEOGRID_START_DATE == 738983

VARIABLES
    pc,                  \* the stage main() is in
    today,               \* dt.date.today() of the run, as an ordinal
    exit_code,           \* exit status of the process, or "none" while it runs
    abort_at,            \* the stage whose exception ended the run, or "none"
    base_fs,             \* raw data/cdn/{version,common__countries,common__cities}.json
    base_i,              \* mirror_base_files: position in its sequence of fetches
    flag_fs,             \* raw data/cdn/common_flags_svg/<cc>.svg
    common_fs,           \* raw data/cdn/common_countries/<cc>.json
    geogrid_fs,          \* raw data/cdn/geogrid_countries/<cc>.json
    board_fs,            \* raw data/cdn/geogrid_boards/<id>.json
    sourcemap,           \* raw data/geogrid_site/app.e26f3b91.js.map
    cleaned,             \* cleaned/<table>.csv : "absent" | "stale" | "fresh"
    common_countries,    \* main: the reference list (its codes), or "none"
    ci,                  \* loop index over country_codes
    flags_report,        \* mirror_flag_svgs: downloaded, missing, invalid
    report_countries,    \* mirror_country_details: the four lists
    attempts,            \* history: number of fetch_to_file calls per resource in this run
    refetched,           \* history: resources fetched although the file existed
    latest_board_id,     \* mirror_boards: parameter
    board_id,            \* mirror_boards: loop variable
    board_loop,          \* mirror_boards: "idle" | "iter" | "break" | "end"
    missing,             \* mirror_boards: local list
    invalid,             \* mirror_boards: local list
    consecutive_misses,  \* mirror_boards: local counter
    last_success,        \* mirror_boards: local
    report_boards,       \* main: value returned by mirror_boards, or "none"
    epc,                 \* export_csvs: "idle" | "index" | "boards" | "written"
    build_i,             \* build_name_to_code_maps: position in common_countries
    name_to_code,        \* build_name_to_code_maps: the index
    mapping_rows,        \* build_name_to_code_maps: the mapping table
    board_files,         \* export_csvs: the board documents read so far
    cell_open,           \* export_csvs: inside the loop over the names of a cell
    codes_resolved,      \* export_csvs: local list of the open cell
    unknown,             \* export_csvs: local list of the open cell
    cell_rows,           \* export_csvs: rows of geogrid_board_cells
    unresolved_answer_names, \* export_csvs: rows of the unresolved-names table
    rpc,                 \* export_ui_countries_csv: "idle" | "count" | "rows" | "done"
    csv_cells,           \* the answers_codes_json texts read from geogrid_board_cells.csv
    final_rows,          \* the code texts of the rows of final_countries.csv
    code_to_answer_cell_count,  \* export_ui_countries_csv: local mapping
    total_cells,         \* export_ui_countries_csv: local counter
    rarity_score_by_code,       \* export_ui_countries_csv: local mapping
    out_rows,            \* export_ui_countries_csv: rows of ui_countries
    detail_i,            \* export_csvs: position of the loop over codes (line 564)
    common_details_rows,        \* export_csvs: rows of common_country_details
    geogrid_details_rows,       \* export_csvs: rows of geogrid_country_details
    geogrid_details_long_rows,  \* export_csvs: rows of geogrid_country_details_long
    obj,                 \* flatten_for_csv: parameter
    prefix,              \* flatten_for_csv: parameter
    out,                 \* flatten_for_csv: the value returned, once it has
    rows,                \* write_csv: parameter
    fieldnames,          \* write_csv: parameter
    csv_file,            \* write_csv: the file written, once it is
    dump_val,            \* json_dumps_stable: the parameter val of each call
    dumped,              \* json_dumps_stable: the value returned by each call
    fpc,                 \* fetch_to_file: "idle" | "curl" | "ran" | "returned"
    out_path,            \* fetch_to_file: the file at out_path
    out_path_before,     \* the file at out_path when fetch_to_file was called
    tmp_path,            \* fetch_to_file: the file at tmp_path
    curl,                \* fetch_to_file: code and stdout of the curl process
    fetched,             \* fetch_to_file: the pair returned, once it is
    merged_rows,         \* export_final_countries_csv: rows of final_countries
    flat_obj,            \* flatten_for_csv: the parameter obj of each call
    flat_out             \* flatten_for_csv: the row returned by each call

mainVars == <<pc, today, exit_code, abort_at>>
baseVars == <<base_fs, base_i, common_countries>>
countryVars == <<flag_fs, common_fs, geogrid_fs, ci, flags_report, report_countries>>
exportVars == <<sourcemap, cleaned>>
boardVars == <<board_fs, latest_board_id, board_id, board_loop, missing, invalid,
               consecutive_misses, last_success, report_boards>>
histVars == <<attempts, refetched>>
pipelineVars == <<mainVars, baseVars, countryVars, exportVars, boardVars, histVars>>
detailVars == <<epc, build_i, name_to_code, mapping_rows, board_files, cell_open,
                codes_resolved, unknown, cell_rows, unresolved_answer_names>>
rarityVars == <<rpc, csv_cells, final_rows, code_to_answer_cell_count, total_cells,
                rarity_score_by_code, out_rows>>
countryRowVars == <<detail_i, common_details_rows, geogrid_details_rows,
                    geogrid_details_long_rows>>
flattenVars == <<obj, prefix, out>>
writeVars == <<rows, fieldnames, csv_file>>
dumpsVars == <<dump_val, dumped>>
fetchVars == <<fpc, out_path, out_path_before, tmp_path, curl, fetched>>
finalVars == <<merged_rows>>
reorderVars == <<flat_obj, flat_out>>
tableVars == <<countryRowVars, flattenVars, writeVars, dumpsVars, fetchVars, finalVars,
               reorderVars>>
vars == <<pipelineVars, detailVars, rarityVars, tableVars>>

Absent == "absent"
None == "none"

Range(s) == {s[i] : i \in DOMAIN s}

(***************************************************************************)
(* Documents of the mirror.                                                *)
(***************************************************************************)
\* a board file: a mapping with rows, columns and answers ("valid"), a mapping
\* lacking one of them ("partial"), or text json.loads rejects ("unparseable")
BoardDocs == {"valid", "partial", "unparseable"}
\* the two cases mirror_boards tells apart
BoardDocsShort == {"valid", "unparseable"}
\* a per-country detail file: a JSON mapping, or text json.loads rejects
DetailDocs == {"dict", "unparseable"}
\* a flag file: text that passes the "<svg" sanity test, or other text
FlagDocs == {"svg", "notsvg"}

\* a base file holds "unparseable" text, a JSON value that is no list
\* ("notlist", for version.json any JSON value) or a JSON list of items
BaseDoc(kind, items) == [kind |-> kind, items |-> items]
BaseAbsent == BaseDoc(Absent, <<>>)

\* a reference entity: its code ("" when it has none), its default name (a
\* sequence of at most one string) and its names mapping (language, value)
Entity(code, name, names) == [code |-> code, name |-> name, names |-> names]
France == Entity("FR", << <<"France">> >>, << <<"en", <<"France">> >> >>)

\* a city of common/cities.json
Paris == Entity("", << <<"Paris">> >>, <<>>)

\* the reference lists served as common/countries.json
RefLists == {<<France>>}
\* str.lower() and str.upper() on the codes
CodeLower(c) == CASE c = "FR" -> "fr" [] OTHER -> c
CodeUpper(c) == CASE c = "fr" -> "FR" [] c = "a" -> "A" [] OTHER -> c
LowerCodes == {CodeLower(l[i].code) : l \in RefLists, i \in 1..1}

BaseFiles == {"version", "countries", "cities"}
BaseOrder == <<"version", "countries", "cities">>
ServedAs(f) ==
    CASE f = "version" -> {BaseDoc("unparseable", <<>>), BaseDoc("notlist", <<>>)}
      [] f = "countries" -> {BaseDoc("unparseable", <<>>), BaseDoc("notlist", <<>>),
                             BaseDoc("list", <<>>)}
                            \cup {BaseDoc("list", l) : l \in RefLists}
      [] f = "cities" -> {BaseDoc("unparseable", <<>>), BaseDoc("notlist", <<>>),
                          BaseDoc("list", <<>>), BaseDoc("list", <<Paris>>)}

BoardIds == 1..MaxTarget
Resources ==
    {<<"base", f>> : f \in BaseFiles}
    \cup {<<k, cc>> : k \in {"flag", "common", "geogrid"}, cc \in LowerCodes}
    \cup {<<"board", i>> : i \in BoardIds}

Tables == {"common_countries", "common_cities", "country_name_to_code",
           "common_country_details", "geogrid_country_details",
           "geogrid_country_details_long",
           "column_dictionary_common_country_details",
           "column_dictionary_geogrid_country_details",
           "geogrid_boards", "geogrid_board_prompts", "geogrid_board_cells",
           "geogrid_category_metadata", "geogrid_category_ids",
           "geogrid_board_unresolved_answer_names",
           "final_countries", "ui_countries"}

\* write_csv on each table of the set ts
Written(ts) == [t \in Tables |-> IF t \in ts THEN "fresh" ELSE cleaned[t]]

\* load_json: json.loads raises on text that is not JSON
LoadJsonRaises(doc) == doc = "unparseable"

\* fetch_to_file as seen by its callers: (ok, status); the file is replaced
\* only when ok.  res is "fail" or the document retrieved.
FetchOk(res) == res # "fail"
FileAfterFetch(old, res) == IF FetchOk(res) THEN res ELSE old

\* history of the retrievals of one run
NoteFetch(r, existed) ==
    /\ attempts' = [attempts EXCEPT ![r] = @ + 1]
    /\ refetched' = IF existed THEN refetched \cup {r} ELSE refetched

NeedsFetchAlways(doc) == TRUE

\* "if not out_path.exists()" of the three mirror loops
NeedsFetch(doc) == doc = Absent

\* an uncaught exception ends the process with status 1
Abort(stage) ==
    /\ pc' = "aborted"
    /\ abort_at' = stage
    /\ exit_code' = 1
    /\ today' = today
    /\ UNCHANGED <<detailVars, rarityVars, tableVars>>

Goto(stage) ==
    /\ pc' = stage
    /\ UNCHANGED <<today, exit_code, abort_at>>
    /\ UNCHANGED <<detailVars, rarityVars, tableVars>>

(***************************************************************************)
(* mirror_base_files                                                       *)
(***************************************************************************)
\* lines 229-239: the three fetches, each raising when it fails
MirrorBaseFetch ==
    /\ pc = "base"
    /\ base_i <= Len(BaseOrder)
    /\ LET f == BaseOrder[base_i] IN
       \E res \in {BaseDoc("fail", <<>>)} \cup ServedAs(f) :
          /\ NoteFetch(<<"base", f>>, base_fs[f] # BaseAbsent)
          /\ base_fs' = [base_fs EXCEPT ![f] = IF FetchOk(res.kind) THEN res ELSE @]
          /\ IF FetchOk(res.kind)
             THEN base_i' = base_i + 1 /\ Goto("base")
             ELSE base_i' = base_i /\ Abort("base")
    /\ UNCHANGED <<common_countries, countryVars, exportVars, boardVars>>

\* lines 241-250: load the three files and check the two lists
MirrorBaseLoad ==
    /\ pc = "base"
    /\ base_i > Len(BaseOrder)
    /\ IF \/ \E f \in BaseFiles : LoadJsonRaises(base_fs[f].kind)
          \/ base_fs["countries"].kind # "list"
          \/ base_fs["countries"].items = <<>>
          \/ base_fs["cities"].kind # "list"
       THEN Abort("base") /\ UNCHANGED common_countries
       ELSE Goto("flags") /\ common_countries' = base_fs["countries"].items
    /\ UNCHANGED <<base_fs, base_i, countryVars, exportVars, boardVars, histVars>>

\* main, line 1125: the codes of the reference list
codes == [i \in DOMAIN common_countries |-> common_countries[i].code]

(***************************************************************************)
(* mirror_flag_svgs                                                        *)
(***************************************************************************)
\* lines 353-359: the sanity test of the file at out_path
FlagChecked(rep, code, doc) ==
    IF doc = "svg" THEN rep
    ELSE [rep EXCEPT !.invalid = Append(@, CodeUpper(code))]

\* one iteration of the loop of mirror_flag_svgs
MirrorFlagsIter ==
    /\ pc = "flags"
    /\ ci <= Len(codes)
    /\ LET code == codes[ci]
           cc == CodeLower(code)
       IN IF NeedsFetch(flag_fs[cc])
          THEN \E res \in {"fail"} \cup FlagDocs :
                 /\ NoteFetch(<<"flag", cc>>, flag_fs[cc] # Absent)
                 /\ flag_fs' = [flag_fs EXCEPT ![cc] = FileAfterFetch(@, res)]
                 /\ flags_report' =
                      IF ~FetchOk(res)
                      THEN [flags_report EXCEPT !.missing = Append(@, CodeUpper(code))]
                      ELSE FlagChecked([flags_report EXCEPT !.downloaded = @ + 1],
                                       code, res)
          ELSE /\ flags_report' = FlagChecked(flags_report, code, flag_fs[cc])
               /\ UNCHANGED <<flag_fs, histVars>>
    /\ ci' = ci + 1
    /\ Goto("flags")
    /\ UNCHANGED <<baseVars, common_fs, geogrid_fs, report_countries, exportVars, boardVars>>

\* line 361: return the report; main goes on to Step 2
MirrorFlagsReturn ==
    /\ pc = "flags"
    /\ ci > Len(codes)
    /\ ci' = 1
    /\ Goto("details")
    /\ UNCHANGED <<baseVars, flag_fs, common_fs, geogrid_fs, flags_report,
                   report_countries, exportVars, boardVars, histVars>>

(***************************************************************************)
(* mirror_country_details                                                  *)
(***************************************************************************)
\* lines 256-268: one iteration of the first loop, two files per code
MirrorDetailsIter ==
    /\ pc = "details"
    /\ ci <= Len(codes)
    /\ LET code == codes[ci]
           cc == CodeLower(code)
           fc == NeedsFetch(common_fs[cc])
           fg == NeedsFetch(geogrid_fs[cc])
       IN \E rc \in {"fail"} \cup DetailDocs, rg \in {"fail"} \cup DetailDocs :
            /\ ~fc => rc = "fail"
            /\ ~fg => rg = "fail"
            /\ common_fs' = IF fc THEN [common_fs EXCEPT ![cc] = FileAfterFetch(@, rc)]
                            ELSE common_fs
            /\ geogrid_fs' = IF fg THEN [geogrid_fs EXCEPT ![cc] = FileAfterFetch(@, rg)]
                             ELSE geogrid_fs
            /\ report_countries' =
                 [report_countries EXCEPT
                    !.missing_common = IF fc /\ ~FetchOk(rc) THEN Append(@, code) ELSE @,
                    !.missing_geogrid = IF fg /\ ~FetchOk(rg) THEN Append(@, code) ELSE @]
            /\ attempts' = [attempts EXCEPT
                              ![<<"common", cc>>] = IF fc THEN @ + 1 ELSE @,
                              ![<<"geogrid", cc>>] = IF fg THEN @ + 1 ELSE @]
            /\ refetched' = refetched
                   \cup (IF fc /\ common_fs[cc] # Absent THEN {<<"common", cc>>} ELSE {})
                   \cup (IF fg /\ geogrid_fs[cc] # Absent THEN {<<"geogrid", cc>>} ELSE {})
    /\ ci' = ci + 1
    /\ Goto("details")
    /\ UNCHANGED <<baseVars, flag_fs, flags_report, exportVars, boardVars>>

\* the codes of `cs` whose file in `fs` exists and does not parse, in order
RECURSIVE InvalidOf(_, _)
InvalidOf(fs, cs) ==
    IF cs = <<>> THEN <<>>
    ELSE LET doc == fs[CodeLower(Head(cs))]
         IN (IF doc # Absent /\ LoadJsonRaises(doc) THEN <<Head(cs)>> ELSE <<>>)
            \o InvalidOf(fs, Tail(cs))

compute_latest_board_id_unclamped(day) ==
    (day - GEOGRID_START_DATE) + 1

\* compute_latest_board_id, lines 215-220
compute_latest_board_id(day) ==
    IF day < GEOGRID_START_DATE THEN 1 ELSE (day - GEOGRID_START_DATE) + 1

\* lines 270-293: the second loop and the report; main goes on to Step 3
\* and enters mirror_boards (lines 301-306) with the computed target
MirrorDetailsValidate ==
    /\ pc = "details"
    /\ ci > Len(codes)
    /\ report_countries' =
         [report_countries EXCEPT !.invalid_common = InvalidOf(common_fs, codes),
                                  !.invalid_geogrid = InvalidOf(geogrid_fs, codes)]
    /\ Goto("boards")
    /\ latest_board_id' = compute_latest_board_id(today)
    /\ board_id' = 1
    /\ board_loop' = "iter"
    /\ UNCHANGED <<baseVars, flag_fs, common_fs, geogrid_fs, ci, flags_report, exportVars,
                   board_fs, missing, invalid, consecutive_misses, last_success,
                   report_boards, histVars>>

(***************************************************************************)
(* mirror_boards                                                           *)
(***************************************************************************)
EarlyStopAtTwo(id, latest, misses) ==
    id >= latest - EarlyStopWindow /\ misses >= EarlyStopMisses - 1

EarlyStopOnFirstMiss(id, latest, misses) ==
    id >= latest - EarlyStopWindow /\ misses >= 1

\* line 314: the break condition
EarlyStop(id, latest, misses) ==
    id >= latest - EarlyStopWindow /\ misses >= EarlyStopMisses

ValidBoardParsed(doc) ==
    ~LoadJsonRaises(doc)

\* line 321: the record validates
ValidBoard(doc) ==
    ~LoadJsonRaises(doc) /\ doc = "valid"

\* the for statement takes the next id, or ends after the last one
NextBoard ==
    IF board_id < latest_board_id
    THEN board_id' = board_id + 1 /\ board_loop' = "iter"
    ELSE board_id' = board_id /\ board_loop' = "end"

\* lines 319-326: load and validate the document at out_path
ValidateBoard(doc) ==
    IF ValidBoard(doc)
    THEN last_success' = board_id /\ invalid' = invalid
    ELSE invalid' = Append(invalid, board_id) /\ last_success' = last_success

\* one iteration of the loop of mirror_boards
MirrorBoardsIter(docs) ==
    /\ pc = "boards"
    /\ board_loop = "iter"
    /\ Goto("boards")
    /\ UNCHANGED <<latest_board_id, report_boards, baseVars, countryVars, exportVars>>
    /\ IF NeedsFetch(board_fs[board_id])
       THEN \E res \in {"fail"} \cup docs :
              /\ NoteFetch(<<"board", board_id>>, board_fs[board_id] # Absent)
              /\ board_fs' = [board_fs EXCEPT ![board_id] = FileAfterFetch(@, res)]
              /\ IF ~FetchOk(res)
                 THEN /\ missing' = Append(missing, board_id)
                      /\ consecutive_misses' = consecutive_misses + 1
                      /\ UNCHANGED <<invalid, last_success>>
                      /\ IF EarlyStop(board_id, latest_board_id, consecutive_misses')
                         THEN board_id' = board_id /\ board_loop' = "break"
                         ELSE NextBoard
                 ELSE /\ consecutive_misses' = 0
                      /\ missing' = missing
                      /\ ValidateBoard(res)
                      /\ NextBoard
       ELSE /\ UNCHANGED <<board_fs, attempts, refetched, missing>>
            /\ consecutive_misses' = 0
            /\ ValidateBoard(board_fs[board_id])
            /\ NextBoard

\* line 328: return the report; main goes on to Step 4
MirrorBoardsReturn ==
    /\ pc = "boards"
    /\ board_loop \in {"break", "end"}
    /\ report_boards' = [missing |-> missing, invalid |-> invalid,
                         last_success |-> last_success]
    /\ Goto("export")
    /\ UNCHANGED <<board_fs, latest_board_id, board_id, board_loop, missing, invalid,
                   consecutive_misses, last_success, histVars,
                   baseVars, countryVars, exportVars>>

\* the locals of mirror_boards at its entry (lines 301-306)
BoardsEntry(latest) ==
    /\ latest_board_id = latest
    /\ board_id = 1
    /\ board_loop = "iter"
    /\ missing = <<>>
    /\ invalid = <<>>
    /\ consecutive_misses = 0
    /\ last_success = 0
    /\ report_boards = None

\* mirror_boards not entered yet
BoardsIdle ==
    /\ latest_board_id = 0
    /\ board_id = 0
    /\ board_loop = "idle"
    /\ missing = <<>>
    /\ invalid = <<>>
    /\ consecutive_misses = 0
    /\ last_success = 0
    /\ report_boards = None

\* the board mirrors that hold documents of `docs` for ids up to t only
MirroredUpTo(t, docs) ==
    {[i \in BoardIds |-> IF i <= t THEN f[i] ELSE Absent] :
        f \in [1..t -> {Absent} \cup docs]}

HistInit ==
    /\ attempts = [r \in Resources |-> 0]
    /\ refetched = {}

(***************************************************************************)
(* export_csvs .. export_ui_countries_csv, by the tables they write        *)
(***************************************************************************)
ExistingBoards == {i \in BoardIds : board_fs[i] # Absent}
CodeSet == Range(codes)

\* lines 522-832.  load_json is not guarded at lines 571, 589 and 708.
\* The documents of this view carry rows: a "dict" detail document yields a
\* row, a "valid" board yields prompts and cells whose answers all resolve.
ExportCsvs ==
    /\ pc = "export"
    /\ LET lists == {"common_countries", "common_cities", "country_name_to_code"}
           commonRows == {c \in CodeSet : common_fs[CodeLower(c)] = "dict"}
           geogridRows == {c \in CodeSet : geogrid_fs[CodeLower(c)] = "dict"}
           details ==
              (IF commonRows # {}
               THEN {"common_country_details",
                     "column_dictionary_common_country_details"} ELSE {})
              \cup
              (IF geogridRows # {}
               THEN {"geogrid_country_details", "geogrid_country_details_long",
                     "column_dictionary_geogrid_country_details"} ELSE {})
           boards ==
              (IF \E i \in ExistingBoards : board_fs[i] \in {"valid", "partial"}
               THEN {"geogrid_boards"} ELSE {})
              \cup
              (IF \E i \in ExistingBoards : board_fs[i] = "valid"
               THEN {"geogrid_board_prompts", "geogrid_board_cells"} ELSE {})
       IN IF \E c \in CodeSet : \/ LoadJsonRaises(common_fs[CodeLower(c)])
                                \/ LoadJsonRaises(geogrid_fs[CodeLower(c)])
          THEN cleaned' = Written(lists) /\ Abort("export")
          ELSE IF \E i \in ExistingBoards : LoadJsonRaises(board_fs[i])
          THEN cleaned' = Written(lists \cup details) /\ Abort("export")
          ELSE cleaned' = Written(lists \cup details \cup boards) /\ Goto("categories")
    /\ UNCHANGED <<sourcemap, baseVars, countryVars, boardVars, histVars>>

\* export_site_category_metadata, lines 455-519, with extract_site_categories
\* and _node_eval_js_to_json, which raises when the evaluation fails
ExportSiteCategoryMetadata ==
    /\ pc = "categories"
    /\ CASE sourcemap = Absent -> cleaned' = cleaned /\ Goto("final")
         [] sourcemap = "categories" ->
              /\ cleaned' = Written({"geogrid_category_metadata", "geogrid_category_ids"})
              /\ Goto("final")
         [] sourcemap = "evalfails" -> cleaned' = cleaned /\ Abort("categories")
    /\ UNCHANGED <<sourcemap, baseVars, countryVars, boardVars, histVars>>

\* export_final_countries_csv, lines 849-852 and 925
ExportFinalCountriesCsv ==
    /\ pc = "final"
    /\ IF \/ cleaned["common_country_details"] = Absent
          \/ cleaned["geogrid_country_details"] = Absent
       THEN cleaned' = cleaned /\ Abort("final")
       ELSE cleaned' = Written({"final_countries"}) /\ Goto("ui")
    /\ UNCHANGED <<sourcemap, baseVars, countryVars, boardVars, histVars>>

\* export_ui_countries_csv, lines 939-945 and 1099
ExportUiCountriesCsv ==
    /\ pc = "ui"
    /\ IF cleaned["final_countries"] = Absent \/ CodeSet = {}
       THEN cleaned' = cleaned /\ Abort("ui")
       ELSE cleaned' = Written({"ui_countries"}) /\ Goto("verify")
    /\ UNCHANGED <<sourcemap, baseVars, countryVars, boardVars, histVars>>

(***************************************************************************)
(* main, Step 5                                                            *)
(***************************************************************************)
\* lines 1178-1190
hard_fail ==
    \/ report_countries.invalid_common # <<>>
    \/ report_countries.invalid_geogrid # <<>>
    \/ flags_report.missing # <<>>
    \/ flags_report.invalid # <<>>
    \/ cleaned["geogrid_country_details"] = Absent
    \/ cleaned["ui_countries"] = Absent

\* lines 1176-1198
Verify ==
    /\ pc = "verify"
    /\ pc' = "done"
    /\ exit_code' = IF hard_fail THEN 2 ELSE 0
    /\ UNCHANGED <<today, abort_at, baseVars, countryVars, exportVars, boardVars, histVars,
                   detailVars, rarityVars, tableVars>>

\* export_csvs not looked into
DetailIdle ==
    /\ epc = "idle"
    /\ build_i = 1
    /\ name_to_code = <<>>
    /\ mapping_rows = <<>>
    /\ board_files = <<>>
    /\ cell_open = FALSE
    /\ codes_resolved = <<>>
    /\ unknown = <<>>
    /\ cell_rows = <<>>
    /\ unresolved_answer_names = <<>>

\* export_ui_countries_csv not looked into
RarityIdle ==
    /\ rpc = "idle"
    /\ csv_cells = <<>>
    /\ final_rows = <<>>
    /\ code_to_answer_cell_count = <<>>
    /\ total_cells = 0
    /\ rarity_score_by_code = <<>>
    /\ out_rows = <<>>

\* the per-country loop of export_csvs not looked into
CountryRowsIdle ==
    /\ detail_i = 1
    /\ common_details_rows = <<>>
    /\ geogrid_details_rows = <<>>
    /\ geogrid_details_long_rows = <<>>

\* flatten_for_csv and write_csv not looked into; out and csv_file are
\* sequences of at most one value
FlattenIdle ==
    /\ obj = [t |-> "dict", v |-> <<>>]
    /\ prefix = <<>>
    /\ out = <<>>

WriteIdle ==
    /\ rows = <<>>
    /\ fieldnames = <<>>
    /\ csv_file = <<>>

DumpsIdle ==
    /\ dump_val = <<>>
    /\ dumped = <<>>

FetchIdle ==
    /\ fpc = "idle"
    /\ out_path = Absent
    /\ out_path_before = Absent
    /\ tmp_path = Absent
    /\ curl = [code |-> 0, stdout |-> <<>>]
    /\ fetched = <<>>

FinalIdle == merged_rows = <<>>

ReorderIdle == flat_obj = <<>> /\ flat_out = <<>>

TablesIdle ==
    /\ CountryRowsIdle /\ FlattenIdle /\ WriteIdle /\ DumpsIdle /\ FetchIdle /\ FinalIdle
    /\ ReorderIdle

(***************************************************************************)
(* Spec: one run of main().  The mirror holds any files of an earlier run; *)
(* the base files and the cleaned tables are all there or all missing.     *)
(***************************************************************************)
CountriesIdle ==
    /\ ci = 1
    /\ flags_report = [downloaded |-> 0, missing |-> <<>>, invalid |-> <<>>]
    /\ report_countries = [missing_common |-> <<>>, missing_geogrid |-> <<>>,
                           invalid_common |-> <<>>, invalid_geogrid |-> <<>>]

Init ==
    /\ pc = "base"
    /\ today \in (GEOGRID_START_DATE - 1)..(GEOGRID_START_DATE + MaxDay)
    /\ exit_code = None
    /\ abort_at = None
    /\ base_fs \in {[f \in BaseFiles |-> BaseAbsent],
                    [f \in BaseFiles |-> BaseDoc("list", <<>>)]}
    /\ base_i = 1
    /\ common_countries = None
    /\ flag_fs \in [LowerCodes -> {Absent} \cup FlagDocs]
    /\ common_fs \in [LowerCodes -> {Absent} \cup DetailDocs]
    /\ geogrid_fs \in [LowerCodes -> {Absent} \cup DetailDocs]
    /\ board_fs \in MirroredUpTo(compute_latest_board_id(today), BoardDocs)
    /\ sourcemap \in {Absent, "categories", "evalfails"}
    /\ cleaned \in {[t \in Tables |-> Absent], [t \in Tables |-> "stale"]}
    /\ CountriesIdle
    /\ BoardsIdle
    /\ HistInit
    /\ DetailIdle
    /\ RarityIdle
    /\ TablesIdle

Next ==
    \/ MirrorBaseFetch
    \/ MirrorBaseLoad
    \/ MirrorFlagsIter
    \/ MirrorFlagsReturn
    \/ MirrorDetailsIter
    \/ MirrorDetailsValidate
    \/ MirrorBoardsIter(BoardDocs)
    \/ MirrorBoardsReturn
    \/ ExportCsvs
    \/ ExportSiteCategoryMetadata
    \/ ExportFinalCountriesCsv
    \/ ExportUiCountriesCsv
    \/ Verify

Spec == Init /\ [][Next]_vars

(***************************************************************************)
(* SpecBoards: Step 3 of main on its own, from the end of Step 2 of a run  *)
(* that found every flag and detail file in the mirror.  The target is     *)
(* computed from the date of the run; the board mirror is empty for the    *)
(* targets up to MaxTarget and arbitrary for the targets up to PreTarget.  *)
(***************************************************************************)
\* the dates of the runs: two days before the epoch date up to the day of
\* board MaxTarget
RunDays == (GEOGRID_START_DATE - 2)..(GEOGRID_START_DATE + MaxTarget - 1)

InitBoards ==
    /\ pc = "details"
    /\ today \in RunDays
    /\ exit_code = None
    /\ abort_at = None
    /\ base_fs = [f \in BaseFiles |->
                    CASE f = "version" -> BaseDoc("notlist", <<>>)
                      [] f = "countries" -> BaseDoc("list", <<France>>)
                      [] f = "cities" -> BaseDoc("list", <<Paris>>)]
    /\ base_i = Len(BaseOrder) + 1
    /\ common_countries = <<France>>
    /\ flag_fs = [c \in LowerCodes |-> "svg"]
    /\ common_fs = [c \in LowerCodes |-> "dict"]
    /\ geogrid_fs = [c \in LowerCodes |-> "dict"]
    /\ sourcemap = Absent
    /\ cleaned = [t \in Tables |-> Absent]
    /\ ci = Len(codes) + 1
    /\ flags_report = [downloaded |-> 0, missing |-> <<>>, invalid |-> <<>>]
    /\ report_countries = [missing_common |-> <<>>, missing_geogrid |-> <<>>,
                           invalid_common |-> <<>>, invalid_geogrid |-> <<>>]
    /\ attempts = [r \in Resources |-> IF r[1] = "base" THEN 1 ELSE 0]
    /\ refetched = {}
    /\ DetailIdle
    /\ RarityIdle
    /\ TablesIdle
    /\ BoardsIdle
    /\ board_fs \in MirroredUpTo(IF compute_latest_board_id(today) <= PreTarget
                                 THEN compute_latest_board_id(today) ELSE 0,
                                 BoardDocs)

NextBoards ==
    \/ MirrorDetailsValidate
    \/ MirrorBoardsIter(BoardDocsShort)
    \/ MirrorBoardsReturn

SpecBoards == InitBoards /\ [][NextBoards]_vars

(***************************************************************************)
(* Strings.  A string is a sequence of tokens: a white-space character, an *)
(* apostrophe, or a word (characters that no operation here separates).    *)
(***************************************************************************)
Space == " "
Tab == "<tab>"
Apostrophe == "'"
\* the typographic apostrophe, U+2019
RightQuote == "U+2019"
Whitespace == {Space, Tab}

\* a value that is not a string (a JSON number)
NotStr == <<"<number>">>
IsStr(x) == x # NotStr

\* str.lower() on the words that have an upper-case letter
LowerPairs ==
    {<<"Ivory", "ivory">>, <<"Coast", "coast">>, <<"Côte", "côte">>,
     <<"Ivoire", "ivoire">>, <<"Aland", "aland">>, <<"Islands", "islands">>,
     <<"Åland", "åland">>, <<"East", "east">>, <<"Timor", "timor">>,
     <<"Timor-Leste", "timor-leste">>, <<"Micronesia", "micronesia">>,
     <<"Federated", "federated">>, <<"States", "states">>,
     <<"Guernsey", "guernsey">>, <<"Bailiwick", "bailiwick">>,
     <<"Cape", "cape">>, <<"Verde", "verde">>, <<"Cabo", "cabo">>,
     <<"Reunion", "reunion">>, <<"Réunion", "réunion">>, <<"RÉUNION", "réunion">>,
     <<"Curacao", "curacao">>, <<"Curaçao", "curaçao">>, <<"Saint", "saint">>,
     <<"Barthelemy", "barthelemy">>, <<"Barthélemy", "barthélemy">>,
     <<"Sao", "sao">>, <<"Tome", "tome">>, <<"Principe", "principe">>,
     <<"São", "são">>, <<"Tomé", "tomé">>, <<"Príncipe", "príncipe">>,
     <<"France", "france">>, <<"La", "la">>, <<"Atlantis", "atlantis">>}

LowerWord(w) ==
    IF \E p \in LowerPairs : p[1] = w
    THEN (CHOOSE p \in LowerPairs : p[1] = w)[2]
    ELSE w

\* str.lower()
StrLower(s) == [i \in DOMAIN s |-> LowerWord(s[i])]

RECURSIVE LStrip(_)
LStrip(s) == IF s # <<>> /\ Head(s) \in Whitespace THEN LStrip(Tail(s)) ELSE s

RECURSIVE RStrip(_)
RStrip(s) ==
    IF s # <<>> /\ s[Len(s)] \in Whitespace THEN RStrip(SubSeq(s, 1, Len(s) - 1)) ELSE s

\* str.strip()
StrStrip(s) == RStrip(LStrip(s))

\* str.replace(old, new) for one-character strings
StrReplace(s, old, new) == [i \in DOMAIN s |-> IF s[i] = old THEN new ELSE s[i]]

\* str.split(): the maximal runs of tokens that are not white space
RECURSIVE StrSplit(_)
StrSplit(s) ==
    LET t == LStrip(s)
        ws == {i \in DOMAIN t : t[i] \in Whitespace}
        n == IF ws = {} THEN Len(t) + 1 ELSE CHOOSE i \in ws : \A j \in ws : i <= j
    IN IF t = <<>> THEN <<>>
       ELSE <<SubSeq(t, 1, n - 1)>> \o StrSplit(SubSeq(t, n, Len(t)))

\* sep.join(parts)
RECURSIVE StrJoin(_, _)
StrJoin(sep, parts) ==
    IF parts = <<>> THEN <<>>
    ELSE IF Len(parts) = 1 THEN Head(parts)
    ELSE Head(parts) \o sep \o StrJoin(sep, Tail(parts))

(***************************************************************************)
(* build_name_to_code_maps                                                 *)
(***************************************************************************)
\* lines 166-170
norm(s) ==
    LET s1 == StrLower(StrStrip(s))
        s2 == StrReplace(s1, RightQuote, Apostrophe)
    IN StrJoin(<<Space>>, StrSplit(s2))

\* lines 178-183: the default name when it is a string, then the values of
\* the names mapping that are strings
candidates(c) ==
    c.name \o SelectSeq([i \in DOMAIN c.names |-> c.names[i][2]], IsStr)

InsertOverwriting(index, n, code) == (n :> code) @@ index

\* lines 189-190: "if n not in name_to_code: name_to_code[n] = code"
Insert(index, n, code) ==
    IF n \in DOMAIN index THEN index ELSE index @@ (n :> code)

\* lines 184-191: the loop over the candidates of one entity
RECURSIVE InsertAll(_, _, _)
InsertAll(st, cands, code) ==
    IF cands = <<>> THEN st
    ELSE LET raw == Head(cands)
             n == norm(raw)
         IN InsertAll(IF n = <<>> THEN st
                      ELSE [index |-> Insert(st.index, n, code),
                            rows |-> Append(st.rows, [name_normalized |-> n,
                                                      name_raw |-> raw,
                                                      code |-> code])],
                      Tail(cands), code)

\* lines 174-191: one iteration of the loop over common_countries
BuildNameToCode ==
    /\ pc = "export"
    /\ epc = "index"
    /\ build_i <= Len(common_countries)
    /\ LET c == common_countries[build_i]
           st == IF c.code = "" THEN [index |-> name_to_code, rows |-> mapping_rows]
                 ELSE InsertAll([index |-> name_to_code, rows |-> mapping_rows],
                                candidates(c), c.code)
       IN /\ name_to_code' = st.index
          /\ mapping_rows' = st.rows
    /\ build_i' = build_i + 1
    /\ UNCHANGED <<epc, board_files, cell_open, codes_resolved, unknown, cell_rows,
                   unresolved_answer_names, pipelineVars, rarityVars, tableVars>>

\* line 192: return; export_csvs writes the mapping table after the two list
\* tables (lines 525-553) and goes on to the board files
BuildReturn ==
    /\ pc = "export"
    /\ epc = "index"
    /\ build_i > Len(common_countries)
    /\ epc' = "boards"
    /\ cleaned' = Written({"common_countries", "common_cities", "country_name_to_code"})
    /\ UNCHANGED <<build_i, name_to_code, mapping_rows, board_files, cell_open,
                   codes_resolved, unknown, cell_rows, unresolved_answer_names,
                   mainVars, baseVars, countryVars, sourcemap, boardVars, histVars,
                   rarityVars, tableVars>>

(***************************************************************************)
(* JSON text of a list of strings, and the order of sorted()               *)
(***************************************************************************)
Quote == "\""
Backslash == "\\"

JsonStringUnescaped(s) == <<Quote>> \o s \o <<Quote>>

\* the escapes of json.dumps with ensure_ascii=False: the quote, the
\* backslash and the control characters
JsonEscape(tok) ==
    CASE tok = Quote -> <<Backslash, Quote>>
      [] tok = Backslash -> <<Backslash, Backslash>>
      [] tok = Tab -> <<Backslash, "t">>
      [] OTHER -> <<tok>>

RECURSIVE JsonEscaped(_)
JsonEscaped(s) == IF s = <<>> THEN <<>> ELSE JsonEscape(Head(s)) \o JsonEscaped(Tail(s))

JsonString(s) == <<Quote>> \o JsonEscaped(s) \o <<Quote>>

\* the place of the quote that ends the string whose text goes on at j, 0
\* when there is none
RECURSIVE StringEnd(_, _)
StringEnd(t, j) ==
    IF j > Len(t) THEN 0
    ELSE IF t[j] = Backslash THEN StringEnd(t, j + 2)
    ELSE IF t[j] = Quote THEN j
    ELSE StringEnd(t, j + 1)

\* the string of an escaped text
RECURSIVE JsonUnescaped(_)
JsonUnescaped(s) ==
    IF s = <<>> THEN <<>>
    ELSE IF Head(s) = Backslash /\ Len(s) >= 2
    THEN <<IF s[2] = "t" THEN Tab ELSE s[2]>> \o JsonUnescaped(SubSeq(s, 3, Len(s)))
    ELSE <<Head(s)>> \o JsonUnescaped(Tail(s))
JsonItem(x) == IF IsStr(x) THEN JsonString(x) ELSE <<"7">>

\* json_dumps_stable, lines 112-113, on a list of strings and numbers
json_dumps_stable(items) ==
    <<"[">> \o StrJoin(<<",">>, [i \in DOMAIN items |-> JsonItem(items[i])]) \o <<"]">>

JsonError == <<"<error>">>

\* the items of the JSON text t that follows "[" or ","
RECURSIVE JsonItems(_)
JsonItems(t) ==
    IF t = <<>> THEN JsonError
    ELSE LET str == Head(t) = Quote /\ StringEnd(t, 2) # 0
             j == IF str THEN StringEnd(t, 2) ELSE 1
             item == IF str THEN JsonUnescaped(SubSeq(t, 2, j - 1)) ELSE NotStr
             rest == SubSeq(t, j + 1, Len(t))
         IN IF ~str /\ Head(t) # "7" THEN JsonError
            ELSE IF rest = <<>> THEN <<item>>
            ELSE IF Head(rest) # "," THEN JsonError
            ELSE LET more == JsonItems(Tail(rest))
                 IN IF more = JsonError THEN JsonError ELSE <<item>> \o more

\* json.loads: a list, another JSON value, or an exception
json_loads(t) ==
    IF t = <<"[", "]">> THEN [kind |-> "list", items |-> <<>>]
    ELSE IF t = <<"{", "}">> THEN [kind |-> "other", items |-> <<>>]
    ELSE IF Len(t) >= 3 /\ t[1] = "[" /\ t[Len(t)] = "]"
              /\ JsonItems(SubSeq(t, 2, Len(t) - 1)) # JsonError
         THEN [kind |-> "list", items |-> JsonItems(SubSeq(t, 2, Len(t) - 1))]
    ELSE [kind |-> "error", items |-> <<>>]

\* a code is a one-word string
CodeStrs(list) == [i \in DOMAIN list |-> <<list[i]>>]

Rank(order, x) == CHOOSE i \in DOMAIN order : order[i] = x

\* the codes in the order of their code points
CodeOrder == <<"", "A", "B", "C", "CI", "D", "E", "F", "FR", "G", "GG", "H", "I", "RE",
               "XR", "Z", "a", "fr">>
CodeLess(a, b) == Rank(CodeOrder, a) < Rank(CodeOrder, b)

\* the tokens of the answer names in the order of their code points; no
\* token is a prefix of another
TokenOrder == <<Tab, Space, Apostrophe, "Atlantis", "Coast", "Côte", "France",
                "Guernsey", "Ivoire", "Ivory", "Reunion", "RÉUNION", "Réunion", "d",
                "reunion", RightQuote>>

\* s < t on strings
RECURSIVE StrLess(_, _)
StrLess(s, t) ==
    IF t = <<>> THEN FALSE
    ELSE IF s = <<>> THEN TRUE
    ELSE IF Head(s) = Head(t) THEN StrLess(Tail(s), Tail(t))
    ELSE Rank(TokenOrder, Head(s)) < Rank(TokenOrder, Head(t))

CodesAsGiven(list) == list

\* line 785: sorted(set(codes_resolved))
RECURSIVE SortedSetOfCodes(_)
SortedSetOfCodes(list) ==
    IF list = <<>> THEN <<>>
    ELSE LET S == Range(list)
             m == CHOOSE x \in S : \A y \in S \ {x} : CodeLess(x, y)
         IN <<m>> \o SortedSetOfCodes(SelectSeq(list, LAMBDA x : x # m))

\* line 786: sorted(set(unknown))
RECURSIVE SortedSetOfStrs(_)
SortedSetOfStrs(list) ==
    IF list = <<>> THEN <<>>
    ELSE LET S == Range(list)
             m == CHOOSE x \in S : \A y \in S \ {x} : StrLess(x, y)
         IN <<m>> \o SortedSetOfStrs(SelectSeq(list, LAMBDA x : x # m))

(***************************************************************************)
(* The resolution of an answer name                                        *)
(***************************************************************************)
\* lines 200-211
mapping ==
    {<< <<"Ivory", Space, "Coast">>, <<"Côte", Space, "d", Apostrophe, "Ivoire">> >>,
     << <<"Aland", Space, "Islands">>, <<"Åland">> >>,
     << <<"East", Space, "Timor">>, <<"Timor-Leste">> >>,
     << <<"Micronesia">>,
        <<"Federated", Space, "States", Space, "of", Space, "Micronesia">> >>,
     << <<"Guernsey">>, <<"Bailiwick", Space, "of", Space, "Guernsey">> >>,
     << <<"Cape", Space, "Verde">>, <<"Cabo", Space, "Verde">> >>,
     << <<"Reunion">>, <<"Réunion">> >>,
     << <<"Curacao">>, <<"Curaçao">> >>,
     << <<"Saint", Space, "Barthelemy">>, <<"Saint", Space, "Barthélemy">> >>,
     << <<"Sao", Space, "Tome", Space, "and", Space, "Principe">>,
        <<"São", Space, "Tomé", Space, "and", Space, "Príncipe">> >>}

\* line 212: mapping.get(name, name)
update_old_names_to_match_cdn(name) ==
    IF \E e \in mapping : e[1] = name
    THEN (CHOOSE e \in mapping : e[1] = name)[2]
    ELSE name

norm_country_name_no_collapse(s) ==
    StrReplace(StrLower(StrStrip(update_old_names_to_match_cdn(s))), RightQuote, Apostrophe)

norm_country_name_alias_last(s) ==
    LET s1 == StrReplace(StrLower(StrStrip(s)), RightQuote, Apostrophe)
    IN update_old_names_to_match_cdn(StrJoin(<<Space>>, StrSplit(s1)))

\* lines 699-703
norm_country_name(s) ==
    LET a == update_old_names_to_match_cdn(s)
        s1 == StrReplace(StrLower(StrStrip(a)), RightQuote, Apostrophe)
    IN StrJoin(<<Space>>, StrSplit(s1))

\* dict.get(k): a sequence of at most one value
DictGet(d, k) == IF k \in DOMAIN d THEN <<d[k]>> ELSE <<>>

\* lines 762-763: the code the index holds for the name, if any
Lookup(index, name) == DictGet(index, norm_country_name(name))

\* line 764: "if code:"
Truthy(code) == code # <<>> /\ code[1] # ""

UnresolvedRowNormalizedOnly(id, key, name, nrm) ==
    [board_id |-> id, cell_key |-> key, answer_name |-> nrm,
     answer_name_normalized |-> nrm]

\* lines 768-775
UnresolvedRow(id, key, name, nrm) ==
    [board_id |-> id, cell_key |-> key, answer_name |-> name,
     answer_name_normalized |-> nrm]

(***************************************************************************)
(* The coordinates of a cell, lines 748-755                                *)
(***************************************************************************)
MatchBoxPrefix == <<"match", "_", "box", "_">>
StartsWith(s, p) == Len(s) >= Len(p) /\ SubSeq(s, 1, Len(p)) = p

\* key.split("_")[-1]
LastSegment(key) ==
    LET us == {i \in DOMAIN key : key[i] = "_"}
        last == IF us = {} THEN 0 ELSE CHOOSE i \in us : \A j \in us : j <= i
    IN SubSeq(key, last + 1, Len(key))

Digits == <<"0", "1", "2", "3", "4", "5", "6", "7", "8", "9">>
IsDigit(d) == \E i \in DOMAIN Digits : Digits[i] = d

RECURSIVE DigitsValue(_)
DigitsValue(ds) ==
    IF ds = <<>> THEN 0
    ELSE 10 * DigitsValue(SubSeq(ds, 1, Len(ds) - 1)) + (Rank(Digits, ds[Len(ds)]) - 1)

\* str(n) of an integer
RECURSIVE DecimalDigits(_)
DecimalDigits(n) ==
    IF n < 10 THEN <<Digits[n + 1]>>
    ELSE DecimalDigits(n \div 10) \o <<Digits[(n % 10) + 1]>>
IntText(n) == IF n < 0 THEN <<"-">> \o DecimalDigits(0 - n) ELSE DecimalDigits(n)

\* int(s) on a string without "_": a sequence holding the value, or the empty
\* sequence when int raises ValueError
int(s) ==
    LET t == StrStrip(s)
        signed == t # <<>> /\ Head(t) \in {"+", "-"}
        ds == IF signed THEN Tail(t) ELSE t
    IN IF ds = <<>> \/ \E i \in DOMAIN ds : ~IsDigit(ds[i]) THEN <<>>
       ELSE IF signed /\ Head(t) = "-" THEN <<0 - DigitsValue(ds)>>
       ELSE <<DigitsValue(ds)>>

CoordsOfAnyKey(key) ==
    LET n == int(LastSegment(key))
    IN IF n = <<>> THEN [row_idx |-> <<>>, col_idx |-> <<>>]
       ELSE [row_idx |-> <<(n[1] - 1) \div 3>>, col_idx |-> <<(n[1] - 1) % 3>>]

\* row_idx and col_idx of a key: sequences of at most one number
Coords(key) ==
    LET n == IF StartsWith(key, MatchBoxPrefix) THEN int(LastSegment(key)) ELSE <<>>
    IN IF n = <<>> THEN [row_idx |-> <<>>, col_idx |-> <<>>]
       ELSE [row_idx |-> <<(n[1] - 1) \div 3>>, col_idx |-> <<(n[1] - 1) % 3>>]

(***************************************************************************)
(* export_csvs: the loop over the board files, lines 706-788               *)
(***************************************************************************)
\* a board document: a mapping whose answers are a mapping ("answers"),
\* another mapping ("noanswers"), or a JSON value that is no mapping
BoardKinds == {"answers", "noanswers", "notdict"}

LastBoard == board_files[Len(board_files)]
LastBoardId == IF board_files = <<>> THEN 0 ELSE LastBoard.board_id
LastCell == LastBoard.answers[Len(LastBoard.answers)]

RECURSIVE SumSeq(_)
SumSeq(s) == IF s = <<>> THEN 0 ELSE Head(s) + SumSeq(Tail(s))

\* the cells and the names of the documents read so far
TotalCells == SumSeq([b \in DOMAIN board_files |-> Len(board_files[b].answers)])
TotalNames ==
    SumSeq([b \in DOMAIN board_files |->
              SumSeq([k \in DOMAIN board_files[b].answers |->
                        Len(board_files[b].answers[k].ans_list)])])

\* lines 706-713: the next file of the sorted glob is loaded
ReadBoard(ids, kinds) ==
    /\ pc = "export"
    /\ epc = "boards"
    /\ ~cell_open
    /\ \E id \in ids, kind \in kinds :
          /\ id > LastBoardId
          /\ board_files' = Append(board_files,
                                   [board_id |-> id, kind |-> kind, answers |-> <<>>])
    /\ UNCHANGED <<epc, build_i, name_to_code, mapping_rows, cell_open, codes_resolved,
                   unknown, cell_rows, unresolved_answer_names, pipelineVars, rarityVars, tableVars>>

\* lines 744-758: the next item of answers; a value that is no list is skipped
OpenCell(keys, lists, maxCells) ==
    /\ pc = "export"
    /\ epc = "boards"
    /\ ~cell_open
    /\ board_files # <<>>
    /\ LastBoard.kind = "answers"
    /\ TotalCells < maxCells
    /\ \E key \in keys, is_list \in lists :
          /\ \A k \in DOMAIN LastBoard.answers : LastBoard.answers[k].key # key
          /\ board_files' =
               [board_files EXCEPT ![Len(board_files)].answers =
                   Append(@, [key |-> key, is_list |-> is_list, ans_list |-> <<>>])]
          /\ cell_open' = is_list
    /\ codes_resolved' = <<>>
    /\ unknown' = <<>>
    /\ UNCHANGED <<epc, build_i, name_to_code, mapping_rows, cell_rows,
                   unresolved_answer_names, pipelineVars, rarityVars, tableVars>>

\* lines 759-775: one iteration of the loop over the names of the cell
ResolveName(names, maxNames) ==
    /\ pc = "export"
    /\ epc = "boards"
    /\ cell_open
    /\ TotalNames < maxNames
    /\ \E name \in names :
          LET b == Len(board_files)
              k == Len(LastBoard.answers)
              nrm == norm_country_name(name)
              code == Lookup(name_to_code, name)
          IN /\ board_files' = [board_files EXCEPT ![b].answers[k].ans_list = Append(@, name)]
             /\ IF ~IsStr(name)
                THEN UNCHANGED <<codes_resolved, unknown, unresolved_answer_names>>
                ELSE IF Truthy(code)
                THEN /\ codes_resolved' = Append(codes_resolved, code[1])
                     /\ UNCHANGED <<unknown, unresolved_answer_names>>
                ELSE /\ unknown' = Append(unknown, name)
                     /\ unresolved_answer_names' =
                          Append(unresolved_answer_names,
                                 UnresolvedRow(LastBoard.board_id, LastCell.key, name, nrm))
                     /\ UNCHANGED codes_resolved
    /\ UNCHANGED <<epc, build_i, name_to_code, mapping_rows, cell_open, cell_rows,
                   pipelineVars, rarityVars, tableVars>>

\* lines 777-788: the row of the cell
CloseCell ==
    /\ pc = "export"
    /\ epc = "boards"
    /\ cell_open
    /\ cell_open' = FALSE
    /\ cell_rows' =
         Append(cell_rows,
                [board_id |-> LastBoard.board_id,
                 cell_key |-> LastCell.key,
                 row_idx |-> Coords(LastCell.key).row_idx,
                 col_idx |-> Coords(LastCell.key).col_idx,
                 answers_count |-> Len(LastCell.ans_list),
                 answers_names_json |-> json_dumps_stable(LastCell.ans_list),
                 answers_codes_json |->
                     json_dumps_stable(CodeStrs(SortedSetOfCodes(codes_resolved))),
                 unknown_answers_json |-> json_dumps_stable(SortedSetOfStrs(unknown))])
    /\ UNCHANGED <<epc, build_i, name_to_code, mapping_rows, board_files, codes_resolved,
                   unknown, unresolved_answer_names, pipelineVars, rarityVars, tableVars>>

\* lines 790-818: the tables of the boards, each written when it has rows
WriteBoardTables ==
    /\ pc = "export"
    /\ epc = "boards"
    /\ ~cell_open
    /\ epc' = "written"
    /\ cleaned' =
         Written((IF \E b \in DOMAIN board_files : board_files[b].kind # "notdict"
                  THEN {"geogrid_boards"} ELSE {})
                 \cup (IF cell_rows # <<>> THEN {"geogrid_board_cells"} ELSE {})
                 \cup (IF unresolved_answer_names # <<>>
                       THEN {"geogrid_board_unresolved_answer_names"} ELSE {}))
    /\ UNCHANGED <<build_i, name_to_code, mapping_rows, board_files, cell_open,
                   codes_resolved, unknown, cell_rows, unresolved_answer_names,
                   mainVars, baseVars, countryVars, sourcemap, boardVars, histVars,
                   rarityVars, tableVars>>

(***************************************************************************)
(* SpecNames: export_csvs from the name index on, for the reference lists  *)
(* of up to MaxEntities entities of EntityPool and one board with the cell *)
(* match_box_1 of up to MaxAnswers names of AnswerPool.                    *)
(***************************************************************************)
Reunion == Entity("RE", << <<"Réunion">> >>, << <<"fr", <<"La", Space, "Réunion">> >> >>)
\* a name that collides with "Réunion", and a value that is no string
ReunionUpper == Entity("XR", << <<Space, "RÉUNION", Tab>> >>, << <<"zh", NotStr>> >>)
IvoryCoast == Entity("CI", << <<"Côte", Space, "d", RightQuote, "Ivoire">> >>, <<>>)
Guernsey == Entity("GG", << <<"Guernsey">> >>, <<>>)
\* no code and no default name
NoCode == Entity("", <<>>, << <<"en", <<"Réunion">> >> >>)
EntityPool == {France, Reunion, ReunionUpper, IvoryCoast, Guernsey, NoCode}

\* the lists of 1..n entities of the pool, none twice
EntityLists(n) ==
    UNION {{l \in [1..k -> EntityPool] : \A i, j \in 1..k : i # j => l[i] # l[j]} :
             k \in 1..n}

AnswerPool ==
    {<<"Reunion">>, <<"reunion">>, <<"Réunion">>, <<Space, "RÉUNION", Tab>>,
     <<"Côte", Space, Space, "d", RightQuote, "Ivoire", Space>>,
     <<"Ivory", Space, "Coast">>, <<"France">>, <<"Guernsey">>, <<"Atlantis">>,
     NotStr}

MatchBox(n) == MatchBoxPrefix \o n

\* the pipeline around export_csvs: the lists are loaded, the mirror holds no
\* detail documents, the board documents are the ones board_files reads
MirrorIdle ==
    /\ today = GEOGRID_START_DATE
    /\ exit_code = None
    /\ abort_at = None
    /\ base_fs = [f \in BaseFiles |-> BaseAbsent]
    /\ base_i = 1
    /\ flag_fs = [c \in LowerCodes |-> Absent]
    /\ common_fs = [c \in LowerCodes |-> Absent]
    /\ geogrid_fs = [c \in LowerCodes |-> Absent]
    /\ board_fs = [i \in BoardIds |-> Absent]
    /\ sourcemap = Absent
    /\ cleaned = [t \in Tables |-> Absent]
    /\ CountriesIdle
    /\ BoardsIdle
    /\ HistInit

InExport ==
    /\ pc = "export"
    /\ MirrorIdle
    /\ epc = "index"
    /\ build_i = 1
    /\ name_to_code = <<>>
    /\ mapping_rows = <<>>
    /\ board_files = <<>>
    /\ cell_open = FALSE
    /\ codes_resolved = <<>>
    /\ unknown = <<>>
    /\ cell_rows = <<>>
    /\ unresolved_answer_names = <<>>
    /\ RarityIdle
    /\ TablesIdle

InitNames ==
    /\ InExport
    /\ common_countries \in EntityLists(MaxEntities)

NextNames ==
    \/ BuildNameToCode
    \/ BuildReturn
    \/ ReadBoard({1}, {"answers", "noanswers"})
    \/ OpenCell({MatchBox(<<"1">>)}, {TRUE}, 1)
    \/ ResolveName(AnswerPool, MaxAnswers)
    \/ CloseCell
    \/ WriteBoardTables

SpecNames == InitNames /\ [][NextNames]_vars

(***************************************************************************)
(* SpecCells: the same for the reference list of France and Reunion, up to *)
(* MaxBoards board files with MaxCells cells and MaxNames names in all.    *)
(***************************************************************************)
CellKeys == {MatchBox(<<"5">>), MatchBox(<<"x">>), <<"bonus">>}
CellNames == {<<"France">>, <<"Atlantis">>, NotStr}

InitCells ==
    /\ InExport
    /\ common_countries = <<France, Reunion>>

NextCells ==
    \/ BuildNameToCode
    \/ BuildReturn
    \/ ReadBoard(1..MaxBoards, {"answers", "notdict"})
    \/ OpenCell(CellKeys, BOOLEAN, MaxCells)
    \/ ResolveName(CellNames, MaxNames)
    \/ CloseCell
    \/ WriteBoardTables

SpecCells == InitCells /\ [][NextCells]_vars

(***************************************************************************)
(* SpecCoords: the same for the reference list of France and one board of  *)
(* up to MaxCells cells whose keys are taken from CoordKeys.               *)
(***************************************************************************)
\* match_box_0 .. match_box_10
NumberedKeys == {MatchBox(DecimalDigits(n)) : n \in 0..10}
\* keys of other shapes: no number, nothing or a sign or a blank after the
\* last "_", a second "_", another prefix
OtherKeys ==
    {MatchBox(<<"x">>), MatchBoxPrefix, MatchBox(<<"-", "2">>), MatchBox(<<Space, "5">>),
     MatchBox(<<"1", "_", "2">>), MatchBox(<<"a", "_", "2">>), <<"box", "_", "5">>,
     <<"bonus">>}
CoordKeys == NumberedKeys \cup OtherKeys

InitCoords ==
    /\ InExport
    /\ common_countries = <<France>>

NextCoords ==
    \/ BuildNameToCode
    \/ BuildReturn
    \/ ReadBoard({1}, {"answers"})
    \/ OpenCell(CoordKeys, {TRUE}, MaxCells)
    \/ ResolveName({<<"France">>}, 1)
    \/ CloseCell
    \/ WriteBoardTables

SpecCoords == InitCoords /\ [][NextCoords]_vars

(***************************************************************************)
(* export_ui_countries_csv: the rarity score, lines 946-982 and 1081-1099  *)
(***************************************************************************)
\* the texts of the column answers_codes_json of geogrid_board_cells.csv
CodesJson(cs) == json_dumps_stable(CodeStrs(cs))
CsvCellTexts ==
    {<<>>, <<"oops">>, <<"{", "}">>, CodesJson(<<>>),
     CodesJson(<<"A">>), CodesJson(<<"a", "B">>), CodesJson(<<"B", "C">>),
     CodesJson(<<"A", "B", "C">>),
     <<Space>> \o CodesJson(<<"C", "C">>) \o <<Space>>,
     json_dumps_stable(<<NotStr, <<>>, <<"D">> >>),
     CodesJson(<<"A", "B", "C", "D", "E", "F", "G", "H", "I">>)}

\* the texts of the code column of final_countries.csv
FinalCodeLists ==
    {<< <<"A">>, <<"B">>, <<"C">>, <<"Z">> >>,
     << <<Space, "a", Space>>, <<>>, <<"I">>, <<"D">> >>}

\* line 966: the set of the upper-cased non-empty strings of a cell
CodesOfCell(text) ==
    LET raw == StrStrip(text)
        doc == json_loads(raw)
    IN IF raw = <<>> \/ doc.kind # "list" THEN {}
       ELSE {CodeUpper(x[1]) : x \in {y \in Range(doc.items) : IsStr(y) /\ y # <<>>}}

\* lines 953-967: one row of the table
RarityReadCell(texts, maxRows) ==
    /\ pc = "ui"
    /\ rpc = "count"
    /\ total_cells < maxRows
    /\ \E text \in texts :
          /\ csv_cells' = Append(csv_cells, text)
          /\ code_to_answer_cell_count' =
               [cc \in DOMAIN code_to_answer_cell_count \cup CodesOfCell(text) |->
                  (IF cc \in DOMAIN code_to_answer_cell_count
                   THEN code_to_answer_cell_count[cc] ELSE 0)
                  + (IF cc \in CodesOfCell(text) THEN 1 ELSE 0)]
    /\ total_cells' = total_cells + 1
    /\ UNCHANGED <<rpc, final_rows, rarity_score_by_code, out_rows, pipelineVars, detailVars, tableVars>>

\* line 974: sorted(items, key=(count, code))
RECURSIVE SortedItems(_)
SortedItems(count) ==
    IF DOMAIN count = {} THEN <<>>
    ELSE LET m == CHOOSE c \in DOMAIN count :
                     \A d \in DOMAIN count \ {c} :
                         \/ count[c] < count[d]
                         \/ count[c] = count[d] /\ CodeLess(c, d)
         IN <<m>> \o SortedItems([d \in DOMAIN count \ {m} |-> count[d]])

RoundDown(num, den) == num \div den

\* round(num / den) for num >= 0 and den > 0, halves to the even neighbour.
\* The program rounds the double 100 * (1 - idx / (n - 1)); the two agree
\* for every n up to 40.
RoundHalfEven(num, den) ==
    LET q == num \div den
        r == num % den
    IN IF 2 * r < den THEN q
       ELSE IF 2 * r > den THEN q + 1
       ELSE IF q % 2 = 0 THEN q ELSE q + 1

\* lines 977-982
ScoreAt(idx, n) ==
    IF n = 1 THEN 100 ELSE RoundHalfEven(100 * ((n - 1) - idx), n - 1)

\* lines 972-982: the scores of the counted codes
RarityScores ==
    /\ pc = "ui"
    /\ rpc = "count"
    /\ rpc' = "rows"
    /\ LET items == SortedItems(code_to_answer_cell_count)
           n == Len(items)
       IN rarity_score_by_code' =
             [cc \in Range(items) |-> ScoreAt(Rank(items, cc) - 1, n)]
    /\ UNCHANGED <<csv_cells, final_rows, code_to_answer_cell_count, total_cells,
                   out_rows, pipelineVars, detailVars, tableVars>>

\* line 1084: (r.get(code_col) or "").strip().upper()
UiCode(text) ==
    LET t == StrStrip(text) IN IF t = <<>> THEN "" ELSE CodeUpper(t[1])

\* line 1087 and write_csv: the text of the Rarity cell, a sequence that is
\* empty (None or "") or holds the number
RarityCell(code) ==
    IF code # "" /\ code \in DOMAIN rarity_score_by_code
    THEN <<rarity_score_by_code[code]>> ELSE <<>>

\* lines 1081-1099: the rows of ui_countries.csv
UiRows ==
    /\ pc = "ui"
    /\ rpc = "rows"
    /\ rpc' = "done"
    /\ out_rows' = [i \in DOMAIN final_rows |->
                      [code |-> UiCode(final_rows[i]),
                       Rarity |-> RarityCell(UiCode(final_rows[i]))]]
    /\ cleaned' = Written({"ui_countries"})
    /\ UNCHANGED <<csv_cells, final_rows, code_to_answer_cell_count, total_cells,
                   rarity_score_by_code, mainVars, baseVars, countryVars, sourcemap,
                   boardVars, histVars, detailVars, tableVars>>

(***************************************************************************)
(* SpecRarity: export_ui_countries_csv over a table of up to MaxCsvRows    *)
(* cells.                                                                  *)
(***************************************************************************)
InitRarity ==
    /\ pc = "ui"
    /\ today = GEOGRID_START_DATE
    /\ exit_code = None
    /\ abort_at = None
    /\ base_fs = [f \in BaseFiles |-> BaseAbsent]
    /\ base_i = 1
    /\ common_countries = <<France>>
    /\ flag_fs = [c \in LowerCodes |-> Absent]
    /\ common_fs = [c \in LowerCodes |-> Absent]
    /\ geogrid_fs = [c \in LowerCodes |-> Absent]
    /\ board_fs = [i \in BoardIds |-> Absent]
    /\ sourcemap = Absent
    /\ cleaned = [t \in Tables |-> IF t = "ui_countries" THEN Absent ELSE "fresh"]
    /\ CountriesIdle
    /\ BoardsIdle
    /\ HistInit
    /\ DetailIdle
    /\ rpc = "count"
    /\ csv_cells = <<>>
    /\ final_rows \in FinalCodeLists
    /\ code_to_answer_cell_count = <<>>
    /\ total_cells = 0
    /\ rarity_score_by_code = <<>>
    /\ out_rows = <<>>
    /\ TablesIdle

NextRarity ==
    \/ RarityReadCell(CsvCellTexts, MaxCsvRows)
    \/ RarityScores
    \/ UiRows

SpecRarity == InitRarity /\ [][NextRarity]_vars

(***************************************************************************)
(* JSON values.  A value carries the name of its Python type and, in v,    *)
(* its content: nothing, a truth value, a number, the text of a float, a   *)
(* string, the items of a list, or the (key, value) pairs of a mapping in  *)
(* the order of the document.  A key is the sequence of the segments that  *)
(* "__" separates in it: <<"a", "b">> is the key "a__b".                   *)
(***************************************************************************)
JNull == [t |-> "NoneType", v |-> <<>>]
JBool(b) == [t |-> "bool", v |-> <<b>>]
JInt(n) == [t |-> "int", v |-> <<n>>]
JFloat(text) == [t |-> "float", v |-> <<text>>]
JStr(s) == [t |-> "str", v |-> s]
JList(items) == [t |-> "list", v |-> items]
JDict(items) == [t |-> "dict", v |-> items]

\* lines 116-117
is_primitive(val) == val.t \in {"NoneType", "str", "int", "float", "bool"}

\* isinstance(val, int): bool is a subclass of int
IsInstanceInt(val) == val.t \in {"int", "bool"}

\* k in d, d.get(k) for a key that is there, d[k] = val, d.keys()
DictHas(d, k) == \E i \in DOMAIN d : d[i][1] = k
DictAt(d, k) == d[CHOOSE i \in DOMAIN d : d[i][1] = k][2]
DictSet(d, k, val) ==
    IF DictHas(d, k) THEN [i \in DOMAIN d |-> IF d[i][1] = k THEN <<k, val>> ELSE d[i]]
    ELSE Append(d, <<k, val>>)
DictKeys(d) == [i \in DOMAIN d |-> d[i][1]]

\* d.update(e)
RECURSIVE DictUpdate(_, _)
DictUpdate(d, e) ==
    IF e = <<>> THEN d ELSE DictUpdate(DictSet(d, Head(e)[1], Head(e)[2]), Tail(e))

\* the text of a key
KeyText(k) == StrJoin(<<"__">>, [i \in DOMAIN k |-> <<k[i]>>])


\* the keys in the order of their code points
KeyOrder == << <<"a">>, <<"a", "b">>, <<"a", "b", "c">>, <<"b">>, <<"borderCount">>,
               <<"borderCountOverride">>, <<"border_count">>,
               <<"border_countries_codes_json">>, <<"borders">>, <<"c">>,
               <<"code">>, <<"d">>, <<"geographyInfo">>,
               <<"geographyInfo", "borderCount">>,
               <<"geographyInfo", "borderCountOverride">>,
               <<"geographyInfo", "borderCountriesCodes_json">>, <<"name">>,
               <<"name_en">> >>
KeyLess(a, b) == Rank(KeyOrder, a) < Rank(KeyOrder, b)

SortedKeysAsGiven(keys) == keys

\* sorted(keys) for keys that differ
RECURSIVE SortedKeys(_)
SortedKeys(keys) ==
    IF keys = <<>> THEN <<>>
    ELSE LET S == Range(keys)
             m == CHOOSE x \in S : \A y \in S \ {x} : KeyLess(x, y)
         IN <<m>> \o SortedKeys(SelectSeq(keys, LAMBDA x : x # m))

\* json_dumps_stable, lines 112-113, on any JSON value: sort_keys=True and
\* the separators "," and ":"
RECURSIVE JsonDumps(_)
JsonDumps(val) ==
    CASE val.t = "NoneType" -> <<"null">>
      [] val.t = "bool" -> IF val.v[1] THEN <<"true">> ELSE <<"false">>
      [] val.t = "int" -> IntText(val.v[1])
      [] val.t = "float" -> val.v
      [] val.t = "str" -> JsonString(val.v)
      [] val.t = "list" ->
           <<"[">> \o StrJoin(<<",">>, [i \in DOMAIN val.v |-> JsonDumps(val.v[i])])
                   \o <<"]">>
      [] val.t = "dict" ->
           LET ks == SortedKeys(DictKeys(val.v))
           IN <<"{">> \o StrJoin(<<",">>,
                            [i \in DOMAIN ks |->
                               JsonString(KeyText(ks[i])) \o <<":">>
                               \o JsonDumps(DictAt(val.v, ks[i]))])
                      \o <<"}">>

(***************************************************************************)
(* flatten_for_csv, lines 120-143.  The row returned is a mapping from     *)
(* keys to primitive values; an encoded composite is a string.             *)
(***************************************************************************)
PromoteNone(out0, nested) == out0

\* lines 135-138: the members of the flattened nested mapping that pass the
\* test of line 137 are stored in out
RECURSIVE PromotePrimitives(_, _)
PromotePrimitives(out0, nested) ==
    IF nested = <<>> THEN out0
    ELSE PromotePrimitives(IF is_primitive(Head(nested)[2])
                           THEN DictSet(out0, Head(nested)[1], Head(nested)[2])
                           ELSE out0,
                           Tail(nested))

\* lines 128-142: the loop over obj.items(), from the row built so far
RECURSIVE FlattenItems(_, _, _)
FlattenItems(items, pre, out0) ==
    IF items = <<>> THEN out0
    ELSE LET k == Head(items)[1]
             val == Head(items)[2]
             key == pre \o k
             encoded == DictSet(out0, key, JStr(JsonDumps(val)))
             out1 == IF is_primitive(val) THEN DictSet(out0, key, val)
                     ELSE IF val.t = "dict"
                          THEN PromotePrimitives(encoded, FlattenItems(val.v, key, <<>>))
                     ELSE encoded
         IN FlattenItems(Tail(items), pre, out1)

flatten_for_csv(o, pre) == FlattenItems(o.v, pre, <<>>)

(***************************************************************************)
(* SpecFlatten: flatten_for_csv on the mappings that nest at most MaxDepth *)
(* mappings, with and without a prefix.                                    *)
(***************************************************************************)
Scalars == {JInt(1), JNull, JStr(<<"x">>)}
Lists == {JList(<<>>), JList(<<JInt(1), JDict(<< << <<"b">>, JInt(2) >> >>)>>)}

\* the values that nest at most d mappings
RECURSIVE ValuesOfDepth(_)
ValuesOfDepth(d) ==
    IF d = 0 THEN Scalars \cup Lists
    ELSE LET inner == ValuesOfDepth(d - 1)
         IN inner \cup {JDict(<<>>)}
            \cup {JDict(<< <<k, val>> >>) : k \in {<<"b">>, <<"c">>}, val \in inner}
            \cup {JDict(<< << <<"b">>, JInt(2) >>, << <<"c">>, val >> >>) : val \in inner}

\* the documents: a value under the key a, alone or next to a number under a
\* second key, in either order
SecondKeys == {<<"b">>, <<"a", "b">>, <<"a", "b", "c">>}
FlattenDocs ==
    LET vals == ValuesOfDepth(MaxDepth - 1)
    IN {JDict(<<>>)}
       \cup {JDict(<< << <<"a">>, val >> >>) : val \in vals}
       \cup {JDict(<< << <<"a">>, val >>, <<k, JInt(7)>> >>) : val \in vals, k \in SecondKeys}
       \cup {JDict(<< <<k, JInt(7)>>, << <<"a">>, val >> >>) : val \in vals, k \in SecondKeys}

\* the call of line 574 has no prefix, the call of line 602 has the section
Prefixes == {<<>>, <<"geographyInfo">>}

FlattenForCsv ==
    /\ pc = "flatten"
    /\ out = <<>>
    /\ out' = <<flatten_for_csv(obj, prefix)>>
    /\ UNCHANGED <<obj, prefix, countryRowVars, writeVars, dumpsVars, fetchVars, finalVars, reorderVars,
                   pipelineVars, detailVars, rarityVars>>

InitFlatten ==
    /\ pc = "flatten"
    /\ MirrorIdle
    /\ common_countries = <<France>>
    /\ DetailIdle
    /\ RarityIdle
    /\ CountryRowsIdle
    /\ WriteIdle
    /\ obj \in FlattenDocs
    /\ prefix \in Prefixes
    /\ out = <<>>
    /\ DumpsIdle
    /\ FetchIdle
    /\ FinalIdle
    /\ ReorderIdle

NextFlatten == FlattenForCsv

SpecFlatten == InitFlatten /\ [][NextFlatten]_vars

(***************************************************************************)
(* export_csvs: the loop over the codes, lines 556-651, and the writes of  *)
(* lines 653-690.  Here a detail file of the mirror holds the JSON value   *)
(* load_json returns, text that json.loads rejects, or is not there.       *)
(***************************************************************************)
NoFile == [t |-> Absent, v |-> <<>>]
BadFile == [t |-> "unparseable", v |-> <<>>]

\* line 556: the codes of the entities that have one
detail_codes == SelectSeq(codes, LAMBDA c : c # "")

\* line 562, and the get of lines 576 and 593: the last entity with the code
code_to_basic(code) ==
    LET is == {i \in DOMAIN common_countries :
                 CodeUpper(common_countries[i].code) = CodeUpper(code)}
    IN IF is = {} THEN <<>>
       ELSE <<common_countries[CHOOSE i \in is : \A j \in is : j <= i]>>

\* a string or number of the reference list as a JSON value
JsonOf(x) == IF IsStr(x) THEN JStr(x) ELSE JInt(7)

\* lines 577-580 and 594-597: the two name columns
WithNames(row, code) ==
    LET basic == code_to_basic(code)
        en == IF basic = <<>> THEN {}
              ELSE {i \in DOMAIN basic[1].names : basic[1].names[i][1] = "en"}
    IN IF basic = <<>> THEN row
       ELSE DictSet(DictSet(row, <<"name">>,
                            IF basic[1].name = <<>> THEN JNull
                            ELSE JsonOf(basic[1].name[1])),
                    <<"name_en">>,
                    IF en = {} THEN JNull
                    ELSE JsonOf(basic[1].names[CHOOSE i \in en : TRUE][2]))

\* obj.get("borders") when it is a list: a sequence of at most one list
BordersOf(o) ==
    IF o.t = "dict" /\ DictHas(o.v, <<"borders">>)
       /\ DictAt(o.v, <<"borders">>).t = "list"
    THEN <<DictAt(o.v, <<"borders">>)>> ELSE <<>>

\* lines 574-587: the row of common_country_details
CommonDetailsRow(code, o) ==
    LET row == WithNames(DictSet(flatten_for_csv(o, <<>>), <<"code">>, JStr(<<code>>)),
                         code)
        borders == BordersOf(o)
    IN IF borders = <<>> THEN row
       ELSE DictSet(DictSet(row, <<"border_count">>, JInt(Len(borders[1].v))),
                    <<"border_countries_codes_json">>, JStr(JsonDumps(borders[1])))

LongRow(code, section, key, val, type) ==
    [code |-> code, section |-> section, key |-> key, value_json |-> JsonDumps(val),
     value_type |-> type]

\* lines 600-617: the sections of the domain document, from the row and the
\* long rows built so far
RECURSIVE Sections(_, _, _)
Sections(code, items, acc) ==
    IF items = <<>> THEN acc
    ELSE LET section == Head(items)[1]
             section_obj == Head(items)[2]
             next ==
               IF section_obj.t = "dict"
               THEN [row |-> DictUpdate(acc.row, flatten_for_csv(section_obj, section)),
                     long |-> acc.long
                              \o [i \in DOMAIN section_obj.v |->
                                    LongRow(code, section, section_obj.v[i][1],
                                            section_obj.v[i][2], section_obj.v[i][2].t)]]
               ELSE [row |-> DictSet(acc.row, section, JStr(JsonDumps(section_obj))),
                     long |-> acc.long]
         IN Sections(code, Tail(items), next)

\* lines 622-626: geogrid_obj["geographyInfo"]["borderCountOverride"], or None
border_override(o) ==
    LET geo == IF DictHas(o.v, <<"geographyInfo">>)
               THEN DictAt(o.v, <<"geographyInfo">>) ELSE JNull
    IN IF geo.t = "dict" /\ DictHas(geo.v, <<"borderCountOverride">>)
       THEN DictAt(geo.v, <<"borderCountOverride">>) ELSE JNull

\* lines 620-628: the derived border count, a sequence of at most one value
border_count(common, o) ==
    LET borders == BordersOf(common)
    IN IF IsInstanceInt(border_override(o)) THEN <<border_override(o)>>
       ELSE IF borders = <<>> THEN <<>>
       ELSE <<JInt(Len(borders[1].v))>>

\* lines 592-651: the row of geogrid_country_details and the long rows of the
\* code; `common` is common_obj, JNull when there is none
GeogridDetails(code, o, common) ==
    LET start == [row |-> WithNames(<< << <<"code">>, JStr(<<code>>) >> >>, code),
                  long |-> <<>>]
        secs == Sections(code, o.v, start)
        count == border_count(common, o)
        borders == BordersOf(common)
        counted ==
          IF count = <<>> THEN secs
          ELSE [row |-> DictSet(secs.row, <<"geographyInfo", "borderCount">>, count[1]),
                long |-> Append(secs.long,
                                LongRow(code, <<"geographyInfo">>, <<"borderCount">>,
                                        count[1], "int"))]
    IN IF borders = <<>> THEN counted
       ELSE [row |-> DictSet(counted.row, <<"geographyInfo", "borderCountriesCodes_json">>,
                             JStr(JsonDumps(borders[1]))),
             long |-> Append(counted.long,
                             LongRow(code, <<"geographyInfo">>, <<"borderCountriesCodes">>,
                                     borders[1], "list"))]

\* lines 564-651: one turn of the loop; load_json raises out of export_csvs on
\* a file that is not JSON
DetailsIter ==
    /\ pc = "export"
    /\ epc = "details"
    /\ detail_i <= Len(detail_codes)
    /\ LET code == detail_codes[detail_i]
           common_file == common_fs[CodeLower(code)]
           geogrid_file == geogrid_fs[CodeLower(code)]
           common_obj == IF common_file.t = "dict" THEN common_file ELSE JNull
       IN IF common_file = BadFile \/ geogrid_file = BadFile
          THEN /\ Abort("export")
               /\ UNCHANGED <<countryRowVars, flattenVars, writeVars, dumpsVars, fetchVars,
                              finalVars,
                              reorderVars>>
               /\ UNCHANGED <<detailVars, rarityVars>>
          ELSE /\ common_details_rows' =
                    IF common_file.t = "dict"
                    THEN Append(common_details_rows, CommonDetailsRow(code, common_file))
                    ELSE common_details_rows
               /\ geogrid_details_rows' =
                    IF geogrid_file.t = "dict"
                    THEN Append(geogrid_details_rows,
                                GeogridDetails(code, geogrid_file, common_obj).row)
                    ELSE geogrid_details_rows
               /\ geogrid_details_long_rows' =
                    IF geogrid_file.t = "dict"
                    THEN geogrid_details_long_rows
                         \o GeogridDetails(code, geogrid_file, common_obj).long
                    ELSE geogrid_details_long_rows
               /\ detail_i' = detail_i + 1
               /\ UNCHANGED <<mainVars, flattenVars, writeVars, dumpsVars, fetchVars, finalVars, reorderVars,
                              detailVars, rarityVars>>
    /\ UNCHANGED <<baseVars, countryVars, exportVars, boardVars, histVars>>

\* lines 653-690: the three tables and the two column dictionaries are written
\* when they have rows; export_csvs goes on to the boards
WriteDetailTables ==
    /\ pc = "export"
    /\ epc = "details"
    /\ detail_i > Len(detail_codes)
    /\ epc' = "boards"
    /\ cleaned' =
         Written((IF common_details_rows # <<>>
                  THEN {"common_country_details",
                        "column_dictionary_common_country_details"} ELSE {})
                 \cup (IF geogrid_details_rows # <<>>
                       THEN {"geogrid_country_details",
                             "column_dictionary_geogrid_country_details"} ELSE {})
                 \cup (IF geogrid_details_long_rows # <<>>
                       THEN {"geogrid_country_details_long"} ELSE {}))
    /\ UNCHANGED <<build_i, name_to_code, mapping_rows, board_files, cell_open,
                   codes_resolved, unknown, cell_rows, unresolved_answer_names,
                   mainVars, baseVars, countryVars, sourcemap, boardVars, histVars,
                   rarityVars, tableVars>>

(***************************************************************************)
(* SpecDetails: the per-country loop of export_csvs over the detail        *)
(* documents of one entity.                                                *)
(***************************************************************************)
CodeList(cs) == JList([i \in DOMAIN cs |-> JStr(<<cs[i]>>)])
Borders(val) == << <<"borders">>, val >>

\* common_countries/<cc>.json as parsed
CommonDetailDocs ==
    {JList(<<>>), JDict(<<>>)}
    \cup {JDict(<<Borders(val)>>) :
            val \in {CodeList(<<>>), CodeList(<<"B">>), CodeList(<<"B", "C">>),
                     JNull, JInt(3)}}
    \cup {JDict(<< << <<"border_count">>, JInt(9) >> >>),
          JDict(<< << <<"border_count">>, JInt(9) >>, Borders(CodeList(<<"B", "C">>)) >>)}

GeographyInfo(val) == << <<"geographyInfo">>, val >>
Override(val) == << <<"borderCountOverride">>, val >>

\* geogrid_countries/<cc>.json as parsed
GeogridDetailDocs ==
    {JList(<<>>), JDict(<<>>), JDict(<<GeographyInfo(JStr(<<"x">>))>>),
     JDict(<<GeographyInfo(JDict(<<>>))>>)}
    \cup {JDict(<<GeographyInfo(JDict(<<Override(val)>>))>>) :
            val \in {JInt(0), JInt(5), JBool(TRUE), JFloat("3.0"), JStr(<<"4">>), JNull}}
    \cup {JDict(<<GeographyInfo(JDict(<< << <<"borderCount">>, JInt(7) >> >>))>>),
          JDict(<<GeographyInfo(JDict(<< << <<"borderCount">>, JInt(7) >>,
                                         Override(JInt(5)) >>))>>)}

InitDetails ==
    /\ pc = "export"
    /\ epc = "details"
    /\ today = GEOGRID_START_DATE
    /\ exit_code = None
    /\ abort_at = None
    /\ base_fs = [f \in BaseFiles |-> BaseAbsent]
    /\ base_i = 1
    /\ common_countries \in {<<France>>, <<NoCode, France>>}
    /\ flag_fs = [c \in LowerCodes |-> Absent]
    /\ common_fs \in [LowerCodes -> {NoFile, BadFile} \cup CommonDetailDocs]
    /\ geogrid_fs \in [LowerCodes -> {NoFile, BadFile} \cup GeogridDetailDocs]
    /\ board_fs = [i \in BoardIds |-> Absent]
    /\ sourcemap = Absent
    /\ cleaned \in {[t \in Tables |-> Absent], [t \in Tables |-> "stale"]}
    /\ CountriesIdle
    /\ BoardsIdle
    /\ HistInit
    /\ build_i = 1
    /\ name_to_code = <<>>
    /\ mapping_rows = <<>>
    /\ board_files = <<>>
    /\ cell_open = FALSE
    /\ codes_resolved = <<>>
    /\ unknown = <<>>
    /\ cell_rows = <<>>
    /\ unresolved_answer_names = <<>>
    /\ RarityIdle
    /\ TablesIdle

NextDetails ==
    \/ DetailsIter
    \/ WriteDetailTables

SpecDetails == InitDetails /\ [][NextDetails]_vars

(***************************************************************************)
(* write_csv, lines 146-152.  The file is its header and one record of     *)
(* cells per row; a cell is the text csv.writer writes for the value.      *)
(***************************************************************************)
\* the text of a cell: None is written as the empty string, other values by str()
CsvText(val) ==
    CASE val.t = "NoneType" -> <<>>
      [] val.t = "bool" -> IF val.v[1] THEN <<"True">> ELSE <<"False">>
      [] val.t = "int" -> IntText(val.v[1])
      [] val.t = "float" -> val.v
      [] val.t = "str" -> val.v

\* r.get(k, "")
GetOrEmpty(r, k) == IF DictHas(r, k) THEN DictAt(r, k) ELSE JStr(<<>>)

\* extrasaction="raise": a key outside fieldnames fails the write
write_csv_raising(rs, names) ==
    IF \E i \in DOMAIN rs : \E j \in DOMAIN rs[i] : rs[i][j][1] \notin Range(names)
    THEN [header |-> names, records |-> <<>>]
    ELSE [header |-> names,
          records |-> [i \in DOMAIN rs |->
                          [j \in DOMAIN names |-> CsvText(GetOrEmpty(rs[i], names[j]))]]]

write_csv(rs, names) ==
    [header |-> names,
     records |-> [i \in DOMAIN rs |->
                     [j \in DOMAIN names |-> CsvText(GetOrEmpty(rs[i], names[j]))]]]

(***************************************************************************)
(* SpecWrite: write_csv on its own, for up to MaxWriteRows rows that have  *)
(* or lack the columns a and b and may have the further key c.             *)
(***************************************************************************)
CellValues == {JNull, JInt(7), JStr(<<"x">>)}

\* the rows: a and b each missing or holding a value, c missing or there
WriteRowPool ==
    {SelectSeq(<< <<<<"c">>, c>>, <<<<"a">>, a>>, <<<<"b">>, b>> >>,
               LAMBDA kv : kv[2] # NoFile) :
        a \in CellValues \cup {NoFile}, b \in CellValues \cup {NoFile},
        c \in {JStr(<<"x">>), NoFile}}

WriteRows == UNION {[1..n -> WriteRowPool] : n \in 0..MaxWriteRows}

\* the column orders of the callers: fixed lists of names
FieldLists == {<< <<"a">> >>, << <<"a">>, <<"b">> >>, << <<"b">>, <<"a">> >>}

WriteCsv ==
    /\ pc = "write"
    /\ csv_file = <<>>
    /\ csv_file' = <<write_csv(rows, fieldnames)>>
    /\ UNCHANGED <<rows, fieldnames, countryRowVars, flattenVars, dumpsVars, fetchVars,
                   finalVars, reorderVars, pipelineVars, detailVars, rarityVars>>

InitWrite ==
    /\ pc = "write"
    /\ MirrorIdle
    /\ common_countries = <<France>>
    /\ DetailIdle
    /\ RarityIdle
    /\ CountryRowsIdle
    /\ FlattenIdle
    /\ rows \in WriteRows
    /\ fieldnames \in FieldLists
    /\ csv_file = <<>>
    /\ DumpsIdle
    /\ FetchIdle
    /\ FinalIdle
    /\ ReorderIdle

NextWrite == WriteCsv

SpecWrite == InitWrite /\ [][NextWrite]_vars

(***************************************************************************)
(* export_final_countries_csv, lines 849-925: the join of the reference    *)
(* list with the two detail tables.  A table written by this run holds the *)
(* rows export_csvs built, each cell as text.                              *)
(***************************************************************************)
\* lines 654 and 658: sorted({k for r in rows for k in r.keys()})
RECURSIVE AllKeys(_)
AllKeys(rs) ==
    IF rs = <<>> THEN <<>>
    ELSE LET more == AllKeys(Tail(rs))
         IN SelectSeq(DictKeys(Head(rs)), LAMBDA k : k \notin Range(more)) \o more

\* _read_csv_as_dicts of a table written by write_csv under sorted columns:
\* every row has every column, as text
ReadCsvAsDicts(rs) ==
    LET names == SortedKeys(AllKeys(rs))
        file == write_csv(rs, names)
    IN [i \in DOMAIN rs |-> [j \in DOMAIN names |-> <<names[j], file.records[i][j]>>]]

\* lines 857-858: the rows that have a code, by their code, the last one
\* of a code winning; a sequence of at most one row
ByCode(rs, code) ==
    LET is == {i \in DOMAIN rs : DictAt(rs[i], <<"code">>) = <<code>>}
    IN IF is = {} THEN <<>> ELSE <<rs[CHOOSE i \in is : \A j \in is : j <= i]>>

\* line 886
exclude_keys == {<<"code">>, <<"name">>, <<"name_en">>}

\* lines 918-921: the cells of one table in the merged row
DetailCells(rs, code) ==
    LET keys == SelectSeq(SortedKeys(AllKeys(rs)), LAMBDA k : k \notin exclude_keys)
        hit == ByCode(rs, code)
    IN [j \in DOMAIN keys |->
          <<keys[j], IF hit = <<>> \/ ~DictHas(hit[1], keys[j]) THEN <<>>
                     ELSE DictAt(hit[1], keys[j])>>]

\* lines 883 and 908-923: one row per upper-cased code of the reference list
MergedRows ==
    LET common_rows == ReadCsvAsDicts(common_details_rows)
        geogrid_rows == ReadCsvAsDicts(geogrid_details_rows)
        all_codes == SortedSetOfCodes([i \in DOMAIN detail_codes |->
                                          CodeUpper(detail_codes[i])])
    IN [i \in DOMAIN all_codes |->
          [code |-> all_codes[i],
           common |-> DetailCells(common_rows, all_codes[i]),
           geogrid |-> DetailCells(geogrid_rows, all_codes[i])]]

\* lines 692-832 and main, Step 4: there are no board files and no site
\* source map, export_csvs returns and export_final_countries_csv is called
ExportCsvsReturn ==
    /\ pc = "export"
    /\ epc = "boards"
    /\ board_files = <<>>
    /\ pc' = "final"
    /\ epc' = "written"
    /\ UNCHANGED <<today, exit_code, abort_at, build_i, name_to_code, mapping_rows,
                   board_files, cell_open, codes_resolved, unknown, cell_rows,
                   unresolved_answer_names, baseVars, countryVars, exportVars, boardVars,
                   histVars, rarityVars, tableVars>>

\* export_final_countries_csv with the rows it writes
ExportFinalCountriesRows ==
    /\ pc = "final"
    /\ epc = "written"
    /\ IF \/ cleaned["common_country_details"] = Absent
          \/ cleaned["geogrid_country_details"] = Absent
       THEN cleaned' = cleaned /\ Abort("final")
       ELSE /\ cleaned' = Written({"final_countries"})
            /\ merged_rows' = MergedRows
            /\ pc' = "ui"
            /\ UNCHANGED <<today, exit_code, abort_at, detailVars, rarityVars,
                           countryRowVars, flattenVars, writeVars, dumpsVars, fetchVars,
                           reorderVars>>
    /\ UNCHANGED <<sourcemap, baseVars, countryVars, boardVars, histVars>>

(***************************************************************************)
(* SpecFinal: export_csvs from the loop over the codes on and then         *)
(* export_final_countries_csv, for a reference list that spells the code   *)
(* of France FR or fr and any detail documents of SpecDetails.             *)
(***************************************************************************)
FranceLower == Entity("fr", << <<"France">> >>, << <<"en", <<"France">> >> >>)

InitFinal ==
    /\ pc = "export"
    /\ epc = "details"
    /\ today = GEOGRID_START_DATE
    /\ exit_code = None
    /\ abort_at = None
    /\ base_fs = [f \in BaseFiles |-> BaseAbsent]
    /\ base_i = 1
    /\ common_countries \in {<<France>>, <<FranceLower>>, <<NoCode, FranceLower>>}
    /\ flag_fs = [c \in LowerCodes |-> Absent]
    /\ common_fs \in [LowerCodes -> {NoFile} \cup CommonDetailDocs]
    /\ geogrid_fs \in [LowerCodes -> {NoFile} \cup GeogridDetailDocs]
    /\ board_fs = [i \in BoardIds |-> Absent]
    /\ sourcemap = Absent
    /\ cleaned = [t \in Tables |-> Absent]
    /\ CountriesIdle
    /\ BoardsIdle
    /\ HistInit
    /\ build_i = 1
    /\ name_to_code = <<>>
    /\ mapping_rows = <<>>
    /\ board_files = <<>>
    /\ cell_open = FALSE
    /\ codes_resolved = <<>>
    /\ unknown = <<>>
    /\ cell_rows = <<>>
    /\ unresolved_answer_names = <<>>
    /\ RarityIdle
    /\ TablesIdle

NextFinal ==
    \/ DetailsIter
    \/ WriteDetailTables
    \/ ExportCsvsReturn
    \/ ExportFinalCountriesRows

SpecFinal == InitFinal /\ [][NextFinal]_vars

(***************************************************************************)
(* SpecDumps: two calls of json_dumps_stable, on values that nest mappings *)
(* and lists up to MaxNesting deep, the mappings in either key order.      *)
(***************************************************************************)
\* a string that holds a quote and a comma
QuotedComma == JStr(<<"a", Quote, ",", Quote, "a">>)

DumpLeaves == {JNull, JBool(TRUE), JInt(1), JFloat("1.0"), JStr(<<"a">>), QuotedComma}
ListLeaves == {JInt(1), JStr(<<"a">>), QuotedComma}
DictLeaves == {JInt(1), JStr(<<"a">>)}

\* the values that nest exactly d levels of lists and mappings
RECURSIVE DumpNested(_)
DumpNested(d) ==
    IF d = 0 THEN DumpLeaves
    ELSE IF d = 1
    THEN {JList(<<x, y>>) : x \in ListLeaves, y \in ListLeaves}
         \cup {JDict(<< << <<"a">>, x >>, << <<"b">>, y >> >>) : x \in DictLeaves, y \in DictLeaves}
         \cup {JDict(<< << <<"b">>, y >>, << <<"a">>, x >> >>) : x \in DictLeaves, y \in DictLeaves}
    ELSE LET inner == {x \in DumpNested(d - 1) : x.t = "dict"}
         IN {JList(<<x, JInt(1)>>) : x \in inner}
            \cup {JDict(<< << <<"a">>, x >>, << <<"b">>, JInt(1) >> >>) : x \in inner}
            \cup {JDict(<< << <<"b">>, JInt(1) >>, << <<"a">>, x >> >>) : x \in inner}

DumpValues == UNION {DumpNested(d) : d \in 0..MaxNesting}

JsonDumpsStable ==
    /\ pc = "dumps"
    /\ Len(dumped) < Len(dump_val)
    /\ dumped' = Append(dumped, JsonDumps(dump_val[Len(dumped) + 1]))
    /\ UNCHANGED <<dump_val, countryRowVars, flattenVars, writeVars, fetchVars, finalVars, reorderVars,
                   pipelineVars, detailVars, rarityVars>>

InitDumps ==
    /\ pc = "dumps"
    /\ MirrorIdle
    /\ common_countries = <<France>>
    /\ DetailIdle
    /\ RarityIdle
    /\ CountryRowsIdle
    /\ FlattenIdle
    /\ WriteIdle
    /\ dump_val \in [1..2 -> DumpValues]
    /\ dumped = <<>>
    /\ FetchIdle
    /\ FinalIdle
    /\ ReorderIdle

NextDumps == JsonDumpsStable

SpecDumps == InitDumps /\ [][NextDumps]_vars

(***************************************************************************)
(* SpecFetch: one call of fetch_to_file, lines 73-105.  curl is run with   *)
(* -o tmp_path and -w "%{http_code}"; it ends with an exit code, the text  *)
(* it wrote to stdout and the file it left at tmp_path.                    *)
(***************************************************************************)
\* the status texts curl writes: 200, other statuses, 000 when there was no
\* response; and texts that -w does not write, for lines 97-100
Status200 == <<"2", "0", "0">>
StatusTexts ==
    {Status200, <<"3", "0", "4">>, <<"4", "0", "4">>, <<"5", "0", "3">>, <<"0", "0", "0">>}
OtherStdout == {<<>>, <<"x">>, <<Space, "2", "0", "0", Space>>}

\* what curl can do: fail (exit code 6, 7, 18 or 28), having written nothing,
\* a part of the body or nothing over an older temporary file; or end with
\* exit code 0, having written the whole body of the last response
CurlOutcomes(tmp) ==
    {[code |-> c, stdout |-> st, tmp |-> t] :
        c \in {6, 7, 18, 28}, st \in StatusTexts, t \in {Absent, "partial", tmp}}
    \cup {[code |-> 0, stdout |-> Status200, tmp |-> "resource"]}
    \cup {[code |-> 0, stdout |-> <<Space, "2", "0", "0", Space>>, tmp |-> "resource"]}
    \cup {[code |-> 0, stdout |-> st, tmp |-> "errorbody"] :
            st \in (StatusTexts \ {Status200}) \cup {<<>>, <<"x">>}}

\* lines 97-100: int(stdout.strip() or "0"), None on ValueError
http_status(stdout) ==
    IF StrStrip(stdout) = <<>> THEN <<0>> ELSE int(StrStrip(stdout))

SucceededOnExitCode(code, status) == code = 0

\* lines 93 and 101: the fetch has succeeded
Succeeded(code, status) == code = 0 /\ status = <<200>>

\* line 92: the curl process runs and ends
FetchRunCurl ==
    /\ pc = "fetch"
    /\ fpc = "curl"
    /\ \E o \in CurlOutcomes(tmp_path) :
          /\ curl' = [code |-> o.code, stdout |-> o.stdout]
          /\ tmp_path' = o.tmp
    /\ fpc' = "ran"
    /\ UNCHANGED <<out_path, out_path_before, fetched, countryRowVars, flattenVars,
                   writeVars, dumpsVars, finalVars, reorderVars, pipelineVars, detailVars, rarityVars>>

\* lines 93-105: the temporary file is removed or moved to out_path
FetchReturn ==
    /\ pc = "fetch"
    /\ fpc = "ran"
    /\ LET status == http_status(curl.stdout)
       IN IF Succeeded(curl.code, status)
          THEN /\ out_path' = tmp_path
               /\ tmp_path' = Absent
               /\ fetched' = <<[ok |-> TRUE, status |-> status]>>
          ELSE /\ out_path' = out_path
               /\ tmp_path' = Absent
               /\ fetched' = <<[ok |-> FALSE,
                                status |-> IF curl.code # 0 THEN <<>> ELSE status]>>
    /\ fpc' = "returned"
    /\ UNCHANGED <<out_path_before, curl, countryRowVars, flattenVars, writeVars, dumpsVars,
                   finalVars, reorderVars, pipelineVars, detailVars, rarityVars>>

\* the call: out_path may hold the file of an earlier run, tmp_path the
\* temporary file of an interrupted one
InitFetch ==
    /\ pc = "fetch"
    /\ MirrorIdle
    /\ common_countries = <<France>>
    /\ DetailIdle
    /\ RarityIdle
    /\ CountryRowsIdle
    /\ FlattenIdle
    /\ WriteIdle
    /\ DumpsIdle
    /\ fpc = "curl"
    /\ out_path \in {Absent, "old"}
    /\ out_path_before = out_path
    /\ tmp_path \in {Absent, "stale"}
    /\ curl = [code |-> 0, stdout |-> <<>>]
    /\ fetched = <<>>
    /\ FinalIdle
    /\ ReorderIdle

NextFetch ==
    \/ FetchRunCurl
    \/ FetchReturn

SpecFetch == InitFetch /\ [][NextFetch]_vars

(***************************************************************************)
(* SpecReorder: flatten_for_csv called twice, on two documents that may be *)
(* the same mapping with its keys, or the keys of a nested mapping, in     *)
(* another order.                                                          *)
(***************************************************************************)
\* the values under the key a: a scalar, and mappings of b and c in both
\* orders and with a mapping nested once more
ReorderValues ==
    {JInt(1), JDict(<<>>),
     JDict(<< << <<"b">>, JInt(1) >> >>),
     JDict(<< << <<"b">>, JInt(1) >>, << <<"c">>, JInt(2) >> >>),
     JDict(<< << <<"c">>, JInt(2) >>, << <<"b">>, JInt(1) >> >>),
     JDict(<< << <<"b">>, JDict(<< << <<"c">>, JInt(1) >>, << <<"d">>, JNull >> >>) >> >>),
     JDict(<< << <<"b">>, JDict(<< << <<"d">>, JNull >>, << <<"c">>, JInt(1) >> >>) >> >>)}

\* the documents: a value under a, alone or next to the number 7 under b,
\* a__b or a__b__c, in either order
ReorderDocs ==
    {JDict(<< << <<"a">>, val >> >>) : val \in ReorderValues}
    \cup {JDict(<< << <<"a">>, val >>, <<k, JInt(7)>> >>) : val \in ReorderValues, k \in SecondKeys}
    \cup {JDict(<< <<k, JInt(7)>>, << <<"a">>, val >> >>) : val \in ReorderValues, k \in SecondKeys}

FlattenEach ==
    /\ pc = "reorder"
    /\ Len(flat_out) < Len(flat_obj)
    /\ flat_out' = Append(flat_out, flatten_for_csv(flat_obj[Len(flat_out) + 1], <<>>))
    /\ UNCHANGED <<flat_obj, countryRowVars, flattenVars, writeVars, dumpsVars, fetchVars,
                   finalVars, pipelineVars, detailVars, rarityVars>>

InitReorder ==
    /\ pc = "reorder"
    /\ MirrorIdle
    /\ common_countries = <<France>>
    /\ DetailIdle
    /\ RarityIdle
    /\ CountryRowsIdle
    /\ FlattenIdle
    /\ WriteIdle
    /\ DumpsIdle
    /\ FetchIdle
    /\ FinalIdle
    /\ flat_obj \in [1..2 -> ReorderDocs]
    /\ flat_out = <<>>

NextReorder == FlattenEach

SpecReorder == InitReorder /\ [][NextReorder]_vars

(***************************************************************************)
(* C1                                                                      *)
(***************************************************************************)
\* the ids of the unbroken run of failed retrievals that ends at id k
RECURSIVE MissRun(_, _)
MissRun(miss, k) ==
    IF k >= 1 /\ k \in Range(miss) THEN 1 + MissRun(miss, k - 1) ELSE 0

\* a step taken from this state is the iteration at board_id
IterStep == pc = "boards" /\ board_loop = "iter"

FailedAt(k) == Len(missing') = Len(missing) + 1 /\ missing'[Len(missing')] = k

\* the stop condition with a window of `w` ids below the target
StopsExactlyWhen(w) ==
    IterStep =>
        /\ (board_loop' = "break") <=>
              (/\ FailedAt(board_id)
               /\ MissRun(missing', board_id) >= 3
               /\ board_id >= latest_board_id - w)
        /\ (board_loop' = "iter") => (board_id' = board_id + 1)
        /\ (board_loop' = "end") => (board_id = latest_board_id)
        /\ board_loop' \in {"break", "iter", "end"}

\* after the stop no id is attempted any more
StoppedStays ==
    board_loop = "break" =>
        /\ board_loop' = "break"
        /\ board_id' = board_id
        /\ attempts' = attempts
        /\ board_fs' = board_fs

\* C1 as stated: mirror_boards stops at id k exactly when the retrieval of k
\* failed, the run of consecutive misses ending at k has reached 3 and k is
\* one of the last 7 ids of 1..target (k > target - 7); after the stop no
\* further id is attempted, otherwise the loop goes on to k + 1.
C1_StopsInLastSeven ==
    [][StopsExactlyWhen(6) /\ StoppedStays]_vars

\* C1 amended: the same with k >= target - 7, the last 8 ids of 1..target
\* (and at k = target the loop ends, there being no id k + 1).
C1_StopsInLastEight ==
    [][StopsExactlyWhen(7) /\ StoppedStays]_vars

\* the loop has stopped early at the lowest id of the window, target - 7
C1_Witness ==
    /\ board_loop = "break"
    /\ board_id = latest_board_id - 7
    /\ Len(missing) >= 3

(***************************************************************************)
(* C2                                                                      *)
(***************************************************************************)
AtMostOneAttempt == \A r \in Resources : attempts[r] <= 1

C3_PartialFailureNeverAborts ==
    pc = "aborted" => abort_at \notin {"export", "final", "ui"}

(***************************************************************************)
(* C4                                                                      *)
(***************************************************************************)
PartialFailure ==
    \/ report_countries.invalid_common # <<>>
    \/ report_countries.invalid_geogrid # <<>>
    \/ report_boards.invalid # <<>>
    \/ flags_report.missing # <<>>
    \/ flags_report.invalid # <<>>
    \/ cleaned["geogrid_country_details"] = Absent
    \/ cleaned["ui_countries"] = Absent

\* C4: when the run reaches the verification step, the exit status is nonzero
\* whenever a parsed document (a detail document of either source or a board
\* record) was found invalid, a flag asset is missing or invalid, or a
\* mandatory output table is missing.
C4_PartialFailuresFailTheRun ==
    (pc = "done" /\ PartialFailure) => exit_code # 0

(***************************************************************************)
(* C5                                                                      *)
(***************************************************************************)
\* trimmed, lower-cased, white-space runs collapsed to one space, the
\* typographic apostrophe replaced by the ASCII one
NormalForm(s) ==
    StrReplace(StrJoin(<<Space>>, StrSplit(StrLower(StrStrip(s)))), RightQuote, Apostrophe)

HasCode(c) == c.code # ""

\* the non-empty normalized forms of the candidate names of each entity
NormalNamesOf ==
    [c \in EntityPool |-> {NormalForm(x) : x \in Range(candidates(c))} \ {<<>>}]
NormalNames(c) == NormalNamesOf[c]

\* the entities with a code that the build loop has passed and that have n
Owners(n) ==
    {i \in 1..(build_i - 1) : HasCode(common_countries[i])
                              /\ n \in NormalNames(common_countries[i])}

FirstOwner(n) == CHOOSE i \in Owners(n) : \A j \in Owners(n) : i <= j

FirstSeenWins ==
    /\ DOMAIN name_to_code = {n \in UNION {NormalNames(common_countries[i]) :
                                             i \in 1..(build_i - 1)} : Owners(n) # {}}
    /\ \A n \in DOMAIN name_to_code :
          name_to_code[n] = common_countries[FirstOwner(n)].code

NoOverwrite ==
    \A n \in DOMAIN name_to_code :
        n \in DOMAIN name_to_code' /\ name_to_code'[n] = name_to_code[n]

\* C5: the index maps every normalized candidate name to the code of the
\* first entity of the reference list that has it (entities without a code
\* are passed over), so of two entities with different codes and a common
\* normalized name the earlier one wins; and no step of the build changes or
\* removes an entry the index already holds.
C5_FirstSeenWins ==
    []FirstSeenWins /\ [][NoOverwrite]_vars

\* the index is built from a list whose two entities have different codes and
\* share a normalized name, and it holds the code of the first
C5_Witness ==
    /\ epc = "boards"
    /\ Len(common_countries) = 2
    /\ HasCode(common_countries[1]) /\ HasCode(common_countries[2])
    /\ common_countries[1].code # common_countries[2].code
    /\ \E n \in NormalNames(common_countries[1]) \cap NormalNames(common_countries[2]) :
          name_to_code[n] = common_countries[1].code

(***************************************************************************)
(* C6                                                                      *)
(***************************************************************************)
\* for each entry K -> V: K, the string looked up for K, the one looked up for V
AliasLookups ==
    UNION {{<<e[1], norm_country_name(e[1]), norm_country_name(e[2])>>} : e \in mapping}

\* the string looked up for an old name is the normalized current name
AliasBeforeNormalization ==
    \A e \in mapping : norm_country_name(e[1]) = NormalForm(e[2])

\* C6: for every entry K -> V of the alias table, resolving K has the outcome
\* of resolving V (the same code, or both without a code), and the string
\* looked up for K is the normalized form of V: the correction is applied
\* to the answer as written, before it is normalized.
C6_AliasResolvesAsCurrentName ==
    /\ AliasBeforeNormalization
    /\ \A t \in AliasLookups :
          /\ DictGet(name_to_code, t[2]) = DictGet(name_to_code, t[3])
          /\ (cell_open /\ t[1] \in Range(LastCell.ans_list))
                => (t[1] \in Range(unknown) <=> ~Truthy(DictGet(name_to_code, t[3])))

\* the old name "Ivory Coast" was resolved to the code the index holds for
\* the current name, spelled with the typographic apostrophe in the list
C6_Witness ==
    /\ cell_open
    /\ LastCell.ans_list = << <<"Ivory", Space, "Coast">> >>
    /\ codes_resolved = <<"CI">>
    /\ name_to_code[<<"côte", Space, "d", Apostrophe, "ivoire">>] = "CI"

(***************************************************************************)
(* C7                                                                      *)
(***************************************************************************)
AnswerStrs == {a \in AnswerPool : IsStr(a)}

\* two answer strings and the strings looked up for them
LookupPair(a, b) == <<a, b, norm_country_name(a), norm_country_name(b)>>

\* the pairs of answer strings with the same normalized form
SameNormalForm ==
    UNION {IF p[1] # p[2] /\ NormalForm(p[1]) = NormalForm(p[2])
           THEN {LookupPair(p[1], p[2])} ELSE {} : p \in AnswerStrs \X AnswerStrs}

\* the pairs of answer strings whose alias-corrected forms have the same
\* normalized form
SameCorrectedNormalForm ==
    UNION {IF /\ p[1] # p[2]
              /\ NormalForm(update_old_names_to_match_cdn(p[1]))
                    = NormalForm(update_old_names_to_match_cdn(p[2]))
           THEN {LookupPair(p[1], p[2])} ELSE {} : p \in AnswerStrs \X AnswerStrs}

\* the two names resolve alike: by the index, and in the lists of the cell
\* that holds both
ResolveAlike(p) ==
    /\ DictGet(name_to_code, p[3]) = DictGet(name_to_code, p[4])
    /\ (cell_open /\ {p[1], p[2]} \subseteq Range(LastCell.ans_list))
          => (p[1] \in Range(unknown) <=> p[2] \in Range(unknown))

\* C7 as stated: two answer strings with the same normalized form resolve to
\* the same result, the same code or both unresolved.
C7_SameNormalFormSameResult ==
    \A p \in SameNormalForm : ResolveAlike(p)

\* C7 amended: two answer strings whose alias-corrected forms (the string as
\* written replaced by its current name when it is a key of the alias table)
\* have the same normalized form resolve to the same result.
C7_SameCorrectedNormalFormSameResult ==
    \A p \in SameCorrectedNormalForm : ResolveAlike(p)

\* a cell whose two names differ in case, white space, apostrophe and alias
\* and that resolved both to the same code
C7_Witness ==
    /\ cell_open
    /\ LastCell.ans_list = << <<"Ivory", Space, "Coast">>,
                             <<"Côte", Space, Space, "d", RightQuote, "Ivoire", Space>> >>
    /\ codes_resolved = <<"CI", "CI">>
    /\ unknown = <<>>

(***************************************************************************)
(* C8                                                                      *)
(***************************************************************************)
RECURSIVE Flatten(_)
Flatten(ss) == IF ss = <<>> THEN <<>> ELSE Head(ss) \o Flatten(Tail(ss))

\* the cells of the documents read so far whose value is a list, in the
\* order of the files and of the items, each with the id of its board
ListCells ==
    Flatten([b \in DOMAIN board_files |->
               LET cells == SelectSeq(board_files[b].answers, LAMBDA c : c.is_list)
               IN [k \in DOMAIN cells |->
                     [board_id |-> board_files[b].board_id, cell |-> cells[k]]]])

\* the normalized form of the alias-corrected name, and whether the index has it
LookedUpOf ==
    [name \in AnswerPool \cup CellNames |-> NormalForm(update_old_names_to_match_cdn(name))]
LookedUp(name) == LookedUpOf[name]
Hit(name) == LookedUp(name) \in DOMAIN name_to_code

ReportOf(id, key, name) ==
    [board_id |-> id, cell_key |-> key, answer_name |-> name,
     answer_name_normalized |-> LookedUp(name)]

\* one report for each occurrence of a string that misses the index
MissesOf(c) ==
    LET miss == SelectSeq(c.cell.ans_list, LAMBDA n : IsStr(n) /\ ~Hit(n))
    IN [i \in DOMAIN miss |-> ReportOf(c.board_id, c.cell.key, miss[i])]

\* C8: the unresolved rows are, in order, one row with the board id, the
\* cell key, the raw name and its normalized form for each occurrence of an
\* answer name that misses the index, over all cells of all boards read; every
\* answer name of a finished cell is among the resolved codes of its row or
\* has such a report; and the rows are written to the audit table.
C8_EveryMissIsReported ==
    /\ unresolved_answer_names = Flatten([i \in DOMAIN ListCells |-> MissesOf(ListCells[i])])
    /\ \A i \in DOMAIN cell_rows :
          LET c == ListCells[i]
              resolved == json_loads(cell_rows[i].answers_codes_json).items
          IN \A n \in Range(c.cell.ans_list) :
                IsStr(n) =>
                   \/ Hit(n) /\ <<name_to_code[LookedUp(n)]>> \in Range(resolved)
                   \/ ReportOf(c.board_id, c.cell.key, n) \in Range(unresolved_answer_names)
    /\ (epc = "written" /\ unresolved_answer_names # <<>>)
          => cleaned["geogrid_board_unresolved_answer_names"] = "fresh"

\* the second board has a cell with a name that resolves and one that
\* misses; the miss is the one row of the written audit table
C8_Witness ==
    /\ epc = "written"
    /\ Len(board_files) = 2
    /\ Len(cell_rows) = 1
    /\ cell_rows[1].answers_codes_json = <<"[", Quote, "FR", Quote, "]">>
    /\ unresolved_answer_names =
         << [board_id |-> 2, cell_key |-> <<"bonus">>, answer_name |-> <<"Atlantis">>,
             answer_name_normalized |-> <<"atlantis">>] >>

(***************************************************************************)
(* C9                                                                      *)
(***************************************************************************)
\* the row of the i-th finished cell lists what the claim says
CellAsSpecified(i) ==
    LET c == ListCells[i].cell
        names == {n \in Range(c.ans_list) : IsStr(n)}
        found == json_loads(cell_rows[i].answers_codes_json)
        lost == json_loads(cell_rows[i].unknown_answers_json)
    IN /\ found.kind = "list"
       /\ \A k \in 1..(Len(found.items) - 1) :
             CodeLess(found.items[k][1], found.items[k + 1][1])
       /\ Range(found.items) = {<<name_to_code[LookedUp(n)]>> : n \in {m \in names : Hit(m)}}
       /\ lost.kind = "list"
       /\ \A k \in 1..(Len(lost.items) - 1) : StrLess(lost.items[k], lost.items[k + 1])
       /\ Range(lost.items) = {n \in names : ~Hit(n)}

\* the i-th finished cell is match_box_1 and its one answer is the name of
\* the j-th entity of the reference list
SingleNameOf(i, j) ==
    /\ ListCells[i].cell.key = MatchBox(<<"1">>)
    /\ common_countries[j].name # <<>>
    /\ ListCells[i].cell.ans_list = common_countries[j].name

\* ... and its row has the coordinates (0, 0), the code of that entity as
\* the only code, and there is no unresolved row of the cell
YieldsCodeOf(i, j) ==
    /\ cell_rows[i].row_idx = <<0>>
    /\ cell_rows[i].col_idx = <<0>>
    /\ cell_rows[i].answers_codes_json = json_dumps_stable(<< <<common_countries[j].code>> >>)
    /\ \A u \in Range(unresolved_answer_names) :
          ~(u.board_id = cell_rows[i].board_id /\ u.cell_key = cell_rows[i].cell_key)

\* the j-th entity has a code, its name is no key of the alias table, and no
\* entity before it that has a code has a candidate of the same normalized form
OwnsItsName(j) ==
    LET e == common_countries[j]
    IN /\ HasCode(e)
       /\ update_old_names_to_match_cdn(e.name[1]) = e.name[1]
       /\ \A k \in 1..(j - 1) :
             HasCode(common_countries[k])
                => NormalForm(e.name[1]) \notin NormalNames(common_countries[k])

CodesIn == [t \in CsvCellTexts |-> CodesOfCell(t)]

\* for each code, the number of cells read in which it occurs
Occurrences ==
    [c \in Range(CodeOrder) |->
        Cardinality({i \in DOMAIN csv_cells : c \in CodesIn[csv_cells[i]]})]

\* the 0-based rank of a code in the ascending order of (count, code) of
\* the codes that occur
RankOf(occ, c) ==
    Cardinality({d \in DOMAIN occ :
                   /\ occ[d] >= 1
                   /\ \/ occ[d] < occ[c]
                      \/ occ[d] = occ[c] /\ CodeLess(d, c)})

\* score is an integer nearest to num / den
Nearest(score, num, den) ==
    2 * (score * den - num) <= den /\ 2 * (num - score * den) <= den

ExampleCounts == [c \in {"A", "B", "C"} |-> IF c = "A" THEN 1 ELSE 2]

\* C10: once the scores are computed, the scored codes are the codes with at
\* least one occurrence; with n such codes and i the rank of a code in the
\* ascending order of (count, code), its score is 100 when n = 1 and
\* otherwise the integer nearest to 100 * (1 - i / (n - 1)), so 100 at rank 0
\* and 0 at rank n - 1; the counts {A:1, B:2, C:2} give 100, 50, 0; and in
\* the rows of ui_countries the Rarity of a scored code is its score while
\* that of any other code is unset.
C10_RarityScore ==
    (rpc \in {"rows", "done"}) =>
        LET occ == Occurrences
            ranked == {c \in DOMAIN occ : occ[c] >= 1}
            n == Cardinality(ranked)
        IN /\ DOMAIN rarity_score_by_code = ranked
           /\ \A c \in ranked :
                 /\ code_to_answer_cell_count[c] = occ[c]
                 /\ IF n = 1 THEN rarity_score_by_code[c] = 100
                    ELSE LET i == RankOf(occ, c)
                         IN /\ Nearest(rarity_score_by_code[c], 100 * ((n - 1) - i), n - 1)
                            /\ i = 0 => rarity_score_by_code[c] = 100
                            /\ i = n - 1 => rarity_score_by_code[c] = 0
           /\ code_to_answer_cell_count = ExampleCounts
                 => rarity_score_by_code = [c \in {"A", "B", "C"} |->
                                              CASE c = "A" -> 100 [] c = "B" -> 50
                                                [] c = "C" -> 0]
           /\ rpc = "done" =>
                 \A i \in DOMAIN out_rows :
                    out_rows[i].Rarity =
                       IF out_rows[i].code \in ranked
                       THEN <<rarity_score_by_code[out_rows[i].code]>> ELSE <<>>

\* the table with the counts {A:1, B:2, C:2}: the rows of A, B and C carry
\* 100, 50 and 0, the row of Z, which no cell names, carries no score
C10_Witness ==
    /\ rpc = "done"
    /\ code_to_answer_cell_count = ExampleCounts
    /\ out_rows = << [code |-> "A", Rarity |-> <<100>>], [code |-> "B", Rarity |-> <<50>>],
                     [code |-> "C", Rarity |-> <<0>>], [code |-> "Z", Rarity |-> <<>>] >>

(***************************************************************************)
(* C11                                                                     *)
(***************************************************************************)
\* the detail documents of the code, JNull for one that is no mapping
DocOf(fs, code) == IF fs[CodeLower(code)].t = "dict" THEN fs[CodeLower(code)] ELSE JNull

\* the precedence as specified: the override when it is there and an integer,
\* else the length of the border list when there is one, else nothing
SpecifiedBorderCount(code) ==
    LET geogrid == DocOf(geogrid_fs, code)
        override == IF geogrid.t = "dict" THEN border_override(geogrid) ELSE JNull
        borders == BordersOf(DocOf(common_fs, code))
    IN IF override.t = "int" THEN <<override>>
       ELSE IF borders # <<>> THEN <<JInt(Len(borders[1].v))>>
       ELSE <<>>

\* the column of a row: a sequence of at most one value
Column(row, key) == IF DictHas(row, key) THEN <<DictAt(row, key)>> ELSE <<>>

RowCode(row) == DictAt(row, <<"code">>).v[1]

\* the long rows that carry the border count of the code
BorderCountLongRows(code) ==
    {i \in DOMAIN geogrid_details_long_rows :
       /\ geogrid_details_long_rows[i].code = code
       /\ geogrid_details_long_rows[i].section = <<"geographyInfo">>
       /\ geogrid_details_long_rows[i].key = <<"borderCount">>}

\* the border count of the domain table, wide and long, follows the precedence
DomainColumnFollows ==
    \A i \in DOMAIN geogrid_details_rows :
       LET code == RowCode(geogrid_details_rows[i])
           want == SpecifiedBorderCount(code)
       IN /\ Column(geogrid_details_rows[i], <<"geographyInfo", "borderCount">>) = want
          /\ \A j \in BorderCountLongRows(code) :
                /\ want # <<>>
                /\ geogrid_details_long_rows[j].value_json = JsonDumps(want[1])

\* the border count of the common table follows the precedence
CommonColumnFollows ==
    \A i \in DOMAIN common_details_rows :
       Column(common_details_rows[i], <<"border_count">>)
         = SpecifiedBorderCount(RowCode(common_details_rows[i]))

\* C11: in every table of the per-country export, the border count of an
\* entity is the override of the domain document when that is an integer, else
\* the length of the border list of the common document, else unset
C11_BorderCountPrecedence == DomainColumnFollows /\ CommonColumnFollows

(***************************************************************************)
(* C12                                                                     *)
(***************************************************************************)
\* the members of obj that are mappings
NestedMembers == {i \in DOMAIN obj.v : obj.v[i][2].t = "dict"}

\* the columns of a flattening that stops below the members of the nested
\* mappings: the keys of obj and, for a nested mapping, the keys of its members
ColumnsOfTwoLevels ==
    {prefix \o obj.v[i][1] : i \in DOMAIN obj.v}
    \cup UNION {{prefix \o obj.v[i][1] \o obj.v[i][2].v[j][1] : j \in DOMAIN obj.v[i][2].v} :
                  i \in NestedMembers}

\* C12: the row flatten_for_csv returns has no column for a member of a
\* mapping that is nested inside a nested mapping
C12_DepthLimited ==
    out # <<>> => Range(DictKeys(out[1])) \subseteq ColumnsOfTwoLevels

(***************************************************************************)
(* C13                                                                     *)
(***************************************************************************)
\* the scalar members of obj keep their value under the prefixed key
ScalarsCopied ==
    \A i \in DOMAIN obj.v :
       is_primitive(obj.v[i][2])
         => Column(out[1], prefix \o obj.v[i][1]) = <<obj.v[i][2]>>

\* a nested mapping is encoded under its key and its scalar members are
\* promoted under key__member
NestedPromoted ==
    \A i \in NestedMembers :
       LET k == prefix \o obj.v[i][1]
           m == obj.v[i][2]
       IN /\ Column(out[1], k) = <<JStr(JsonDumps(m))>>
          /\ \A j \in DOMAIN m.v :
                is_primitive(m.v[j][2]) => Column(out[1], k \o m.v[j][1]) = <<m.v[j][2]>>

\* C13: the empty mapping gives the empty row, every scalar is copied under
\* its (prefixed) key, and a nested mapping m under k gives the column k with
\* the encoding of m and a column k__c with m[c] for every scalar member c
C13_ScalarsAndNestedMembers ==
    out # <<>> => /\ (obj.v = <<>> => out[1] = <<>>)
                  /\ ScalarsCopied
                  /\ NestedPromoted

\* the members of the document at every depth, in the order of the document,
\* each with the column it flattens to and with what the column then holds:
\* the scalar itself, or the encoding of the composite
RECURSIVE MembersInOrder(_, _)
MembersInOrder(items, pre) ==
    IF items = <<>> THEN <<>>
    ELSE LET key == pre \o Head(items)[1]
             val == Head(items)[2]
         IN << <<key, IF is_primitive(val) THEN val ELSE JStr(JsonDumps(val))>> >>
            \o (IF val.t = "dict" THEN MembersInOrder(val.v, key) ELSE <<>>)
            \o MembersInOrder(Tail(items), pre)

NoColumnTwice ==
    LET ms == MembersInOrder(obj.v, prefix)
    IN \A i, j \in DOMAIN ms : ms[i][1] = ms[j][1] => i = j

\* the columns are the ones of the members, and a column holds the last of
\* the members that flatten to it
LastMemberWins ==
    LET ms == MembersInOrder(obj.v, prefix)
    IN /\ Range(DictKeys(out[1])) = {ms[i][1] : i \in DOMAIN ms}
       /\ \A i \in DOMAIN ms :
             (\A j \in DOMAIN ms : ms[j][1] = ms[i][1] => j <= i)
               => Column(out[1], ms[i][1]) = <<ms[i][2]>>

\* C13, amended: as C13 for the mappings no two of whose members flatten to
\* the same column; in general a column holds the member that comes last
C13_ScalarsAndNestedMembersOfDistinctColumns ==
    out # <<>> => /\ (obj.v = <<>> => out[1] = <<>>)
                  /\ (NoColumnTwice => ScalarsCopied /\ NestedPromoted)
                  /\ LastMemberWins

\* {"a": {"b": 1}} is flattened to a = '{"b":1}' and a__b = 1
C13_Witness ==
    /\ obj = JDict(<< << <<"a">>, JDict(<< << <<"b">>, JInt(1) >> >>) >> >>)
    /\ prefix = <<>>
    /\ out = << << << <<"a">>, JStr(<<"{", Quote, "b", Quote, ":", "1", "}">>) >>,
                   << <<"a", "b">>, JInt(1) >> >> >>

(***************************************************************************)
(* C14                                                                     *)
(***************************************************************************)
\* export_final_countries_csv has read its two tables (lines 854-855)
FinalHasRead == pc \in {"ui", "verify", "done"}
\* export_ui_countries_csv has read final_countries.csv (line 943) and, when
\* the file is there, geogrid_board_cells.csv (lines 953-956)
UiHasRead == pc \in {"verify", "done"}

\* C14: a table an export stage has read was written earlier in the same run:
\* none of them is a file that an earlier run left behind
C14_StagesReadTablesOfThisRun ==
    /\ FinalHasRead => /\ cleaned["common_country_details"] = "fresh"
                       /\ cleaned["geogrid_country_details"] = "fresh"
    /\ UiHasRead => /\ cleaned["final_countries"] = "fresh"
                    /\ cleaned["geogrid_board_cells"] # "stale"

(***************************************************************************)
(* C15                                                                     *)
(***************************************************************************)
\* a stage after mirror_base_files has been entered
LaterStageEntered == pc # "base" /\ ~(pc = "aborted" /\ abort_at = "base")

\* the file of a reference list parses to a list that is not empty
GoodList(f) == base_fs[f].kind = "list" /\ base_fs[f].items # <<>>

\* a retrieval of mirror_base_files fails in this step
BaseRetrievalFails ==
    /\ pc = "base"
    /\ \E f \in BaseFiles : attempts'[<<"base", f>>] = attempts[<<"base", f>>] + 1
    /\ base_i' = base_i

\* C15: a stage after mirror_base_files is entered only with a country list
\* and a city list that were retrieved, parse and are not empty, and a failed
\* retrieval aborts the run on the spot
C15_BadReferenceListAborts ==
    /\ [](LaterStageEntered => GoodList("countries") /\ GoodList("cities"))
    /\ [][BaseRetrievalFails => pc' = "aborted"]_vars

(***************************************************************************)
(* C16                                                                     *)
(***************************************************************************)
\* mirror_boards has returned its report
Reported == pc = "export" /\ board_loop \in {"break", "end"}

\* the document of id i is in the mirror (it was there or it was retrieved)
\* but is no mapping that has rows, columns and answers
AvailableNotValid(i) == board_fs[i] # Absent /\ board_fs[i] # "valid"

\* the ids the loop has reached, those up to the id at which it ended
Reached == 1..board_id

Ascending(l) == \A i, j \in DOMAIN l : i < j => l[i] < l[j]

\* the highest id reached whose record validated, 0 when none did
HighestValidated ==
    LET ok == {i \in Reached : board_fs[i] = "valid"}
    IN IF ok = {} THEN 0 ELSE CHOOSE i \in ok : \A j \in ok : j <= i

ListsAscending ==
    Ascending(report_boards.missing) /\ Ascending(report_boards.invalid)

LastThreeFail ==
    /\ board_loop \in {"break", "end"}
    /\ latest_board_id >= 3
    /\ \A i \in 1..(latest_board_id - 3) :
          attempts[<<"board", i>>] = 1 /\ board_fs[i] = "valid"
    /\ \A i \in (latest_board_id - 2)..latest_board_id : board_fs[i] = Absent

\* C17: for a target T >= 3 with nothing mirrored, when the retrieval of
\* 1..T-3 succeeds with valid records and that of T-2, T-1, T fails, the
\* loop ends at id T with missing = [T-2, T-1, T] and last_success = T-3.
C17_ThreeMissesAtTheEnd ==
    LastThreeFail =>
        /\ board_id = latest_board_id
        /\ missing = <<latest_board_id - 2, latest_board_id - 1, latest_board_id>>
        /\ last_success = latest_board_id - 3
        /\ invalid = <<>>

\* the case of the largest target, reported
C17_Witness ==
    /\ LastThreeFail
    /\ latest_board_id = MaxTarget
    /\ pc = "export"
    /\ report_boards.missing = <<MaxTarget - 2, MaxTarget - 1, MaxTarget>>
    /\ report_boards.last_success = MaxTarget - 3

(***************************************************************************)
(* C18                                                                     *)
(***************************************************************************)
\* main has computed the target of Step 3 from the date of the run
TargetComputed == pc \in {"boards", "export"}

\* C18: compute_latest_board_id(today) is 1 + the number of days from the
\* epoch date to today when today is on or after the epoch date and 1 when
\* today is before it: 1 on the epoch date, 11 ten days later, never less
\* than 1.
C18_LatestBoardId ==
    TargetComputed =>
        /\ today >= GEOGRID_START_DATE =>
              latest_board_id = 1 + (today - GEOGRID_START_DATE)
        /\ today < GEOGRID_START_DATE => latest_board_id = 1
        /\ today = GEOGRID_START_DATE => latest_board_id = 1
        /\ today = GEOGRID_START_DATE + 10 => latest_board_id = 11
        /\ latest_board_id >= 1

\* the target of a run ten days after the epoch date
C18_Witness ==
    /\ TargetComputed
    /\ today = GEOGRID_START_DATE + 10
    /\ latest_board_id = 11

(***************************************************************************)
(* C19                                                                     *)
(***************************************************************************)
OnGrid(r) ==
    /\ r.row_idx # <<>> /\ r.row_idx[1] \in 0..2
    /\ r.col_idx # <<>> /\ r.col_idx[1] \in 0..2

CoordsUnset(r) == r.row_idx = <<>> /\ r.col_idx = <<>>

\* the row has the coordinates of the number n
CoordsOfNumber(r, n) ==
    r.row_idx = <<(n - 1) \div 3>> /\ r.col_idx = <<(n - 1) % 3>>

\* C19 as stated: a cell whose key is match_box_N has row_idx = (N-1) div 3
\* and col_idx = (N-1) mod 3, both in 0..2; a cell whose key has any other
\* shape has both coordinates unset.
C19_CoordinatesOnTheGrid ==
    \A i \in DOMAIN cell_rows :
       LET r == cell_rows[i]
       IN /\ \A n \in 0..10 :
                r.cell_key = MatchBox(DecimalDigits(n)) => CoordsOfNumber(r, n) /\ OnGrid(r)
          /\ r.cell_key \notin NumberedKeys => CoordsUnset(r)

\* C19 amended: a cell whose key begins with match_box_ and whose text after
\* the last "_" reads as an integer N (sign and surrounding blanks allowed)
\* has row_idx = (N-1) div 3 and col_idx = (N-1) mod 3, div and mod rounding
\* down; the two lie in 0..2 exactly when 1 <= N <= 9.  Every other cell has
\* both coordinates unset.
C19_CoordinatesOfTheLastSegment ==
    \A i \in DOMAIN cell_rows :
       LET r == cell_rows[i]
           k == r.cell_key
       IN /\ \A n \in 0..10 :
                k = MatchBox(DecimalDigits(n)) =>
                    CoordsOfNumber(r, n) /\ (OnGrid(r) <=> n \in 1..9)
          /\ k = MatchBox(<<"-", "2">>) => CoordsOfNumber(r, 0 - 2)
          /\ k = MatchBox(<<Space, "5">>) => CoordsOfNumber(r, 5)
          /\ k \in {MatchBox(<<"1", "_", "2">>), MatchBox(<<"a", "_", "2">>)} =>
                CoordsOfNumber(r, 2)
          /\ k \in {MatchBox(<<"x">>), MatchBoxPrefix, <<"box", "_", "5">>, <<"bonus">>} =>
                CoordsUnset(r)

\* the rows of match_box_9, on the grid at (2, 2), and of match_box_10, at
\* row 3
C19_Witness ==
    /\ epc = "written"
    /\ \E i, j \in DOMAIN cell_rows :
          /\ cell_rows[i].cell_key = MatchBox(<<"9">>)
          /\ cell_rows[i].row_idx = <<2>> /\ cell_rows[i].col_idx = <<2>>
          /\ cell_rows[j].cell_key = MatchBox(<<"1", "0">>)
          /\ cell_rows[j].row_idx = <<3>> /\ cell_rows[j].col_idx = <<0>>

(***************************************************************************)
(* C20                                                                     *)
(***************************************************************************)
\* the places of the row that hold the column k
PlacesOf(r, k) == {p \in DOMAIN r : r[p][1] = k}

\* the cell of column k of row r: the text of the value, nothing when the
\* row has no such column
ExpectedCell(r, k) ==
    IF PlacesOf(r, k) = {} THEN <<>>
    ELSE CsvText(r[CHOOSE p \in PlacesOf(r, k) : TRUE][2])

\* C20: write_csv, given a column order, writes one record per row, with
\* exactly the columns of the order in that order; a column the row lacks
\* is written empty, without failing, and a key of the row outside the
\* column order is ignored.
C20_OneRecordPerRowInColumnOrder ==
    csv_file # <<>> =>
        LET records == csv_file[1].records
        IN /\ Len(records) = Len(rows)
           /\ \A i \in DOMAIN rows :
                 /\ Len(records[i]) = Len(fieldnames)
                 /\ \A j \in DOMAIN fieldnames :
                       records[i][j] = ExpectedCell(rows[i], fieldnames[j])

\* a file of two rows in the order b, a: the first lacks b and has the key
\* c, the second has both columns
C20_Witness ==
    /\ csv_file # <<>>
    /\ fieldnames = << <<"b">>, <<"a">> >>
    /\ Len(rows) = 2
    /\ PlacesOf(rows[1], <<"b">>) = {} /\ PlacesOf(rows[1], <<"c">>) # {}
    /\ csv_file[1].records = << << <<>>, <<"7">> >>, << <<"x">>, <<>> >> >>

(***************************************************************************)
(* C21                                                                     *)
(***************************************************************************)
\* x and y are the same JSON value: the same scalar, lists of the same
\* values in the same order, mappings of the same keys to the same values
RECURSIVE SameValue(_, _)
SameValue(x, y) ==
    /\ x.t = y.t
    /\ CASE x.t = "list" ->
              /\ Len(x.v) = Len(y.v)
              /\ \A i \in DOMAIN x.v : SameValue(x.v[i], y.v[i])
         [] x.t = "dict" ->
              /\ {x.v[i][1] : i \in DOMAIN x.v} = {y.v[i][1] : i \in DOMAIN y.v}
              /\ \A i \in DOMAIN x.v : \A j \in DOMAIN y.v :
                    x.v[i][1] = y.v[j][1] => SameValue(x.v[i][2], y.v[j][2])
         [] OTHER -> x.v = y.v

\* x and y are lists of the same elements in another order
DifferInOrder(x, y) ==
    /\ x.t = "list" /\ y.t = "list"
    /\ Len(x.v) = Len(y.v)
    /\ \E f \in [DOMAIN x.v -> DOMAIN y.v] :
          /\ \A i, j \in DOMAIN x.v : i # j => f[i] # f[j]
          /\ \A i \in DOMAIN x.v : SameValue(x.v[i], y.v[f[i]])
    /\ ~SameValue(x, y)

\* C21: json_dumps_stable gives the same text for the same value, whatever
\* the order of the keys of its mappings at any nesting level, and gives
\* different texts for two lists that differ in the order of their elements.
C21_SameValueSameText ==
    \A i, j \in DOMAIN dumped :
        /\ SameValue(dump_val[i], dump_val[j]) => dumped[i] = dumped[j]
        /\ DifferInOrder(dump_val[i], dump_val[j]) => dumped[i] # dumped[j]

\* two calls on the same value whose inner mappings are in different key
\* orders
C21_Witness ==
    /\ Len(dumped) = 2
    /\ dump_val[1] = JDict(<< << <<"b">>, JInt(1) >>,
                              << <<"a">>, JDict(<< << <<"b">>, JInt(1) >>,
                                                   << <<"a">>, JStr(<<"a">>) >> >>) >> >>)
    /\ dump_val[2] = JDict(<< << <<"a">>, JDict(<< << <<"a">>, JStr(<<"a">>) >>,
                                                   << <<"b">>, JInt(1) >> >>) >>,
                              << <<"b">>, JInt(1) >> >>)
    /\ dumped[1] = dumped[2]
    /\ dumped[1] = <<"{", Quote, "a", Quote, ":", "{", Quote, "a", Quote, ":", Quote, "a",
                     Quote, ",", Quote, "b", Quote, ":", "1", "}", ",", Quote, "b", Quote,
                     ":", "1", "}">>

(***************************************************************************)
(* C22                                                                     *)
(***************************************************************************)
\* curl ended without a transport error and the last response had status 200
TransportSuccessWith200 ==
    curl.code = 0 /\ StrStrip(curl.stdout) = Status200

\* C22: fetch_to_file reports success only for a transport-level success
\* with HTTP status 200, and then the destination holds the complete
\* resource; on any other response or a transport error it reports failure,
\* leaves the destination as it was before the call and leaves no temporary
\* file; at no time does the destination hold a part of a file.
C22_AtomicFetch ==
    /\ out_path \in {out_path_before, "resource"}
    /\ fetched # <<>> =>
          /\ fetched[1].ok <=> TransportSuccessWith200
          /\ fetched[1].ok => out_path = "resource"
          /\ ~fetched[1].ok => out_path = out_path_before
          /\ tmp_path = Absent

\* a failed fetch after curl broke off in the body of a 200 response, over a
\* mirrored file and an older temporary file
C22_Witness ==
    /\ fetched # <<>>
    /\ ~fetched[1].ok
    /\ curl.code = 18 /\ curl.stdout = Status200
    /\ out_path_before = "old" /\ out_path = "old"
    /\ tmp_path = Absent

(***************************************************************************)
(* C23                                                                     *)
(***************************************************************************)
\* the merged row of the code, upper-cased, carries every value of the
\* detail row r in the cells `cells` of its table
CarriesValuesOf(r, cells) ==
    \A p \in DOMAIN r :
        r[p][1] \notin exclude_keys =>
            \E q \in DOMAIN cells : cells[q] = <<r[p][1], CsvText(r[p][2])>>

MergedRowOf(code) ==
    {i \in DOMAIN merged_rows : merged_rows[i].code = CodeUpper(code)}

\* C23: the detail join does not depend on the letter case of the code in
\* the reference list: once final_countries is written, every detail row,
\* common or domain, has its values in the final row of its entity.
C23_JoinIgnoresCase ==
    pc = "ui" =>
        /\ \A i \in DOMAIN common_details_rows :
              LET r == common_details_rows[i]
              IN \E m \in MergedRowOf(DictAt(r, <<"code">>).v[1]) :
                    CarriesValuesOf(r, merged_rows[m].common)
        /\ \A i \in DOMAIN geogrid_details_rows :
              LET r == geogrid_details_rows[i]
              IN \E m \in MergedRowOf(DictAt(r, <<"code">>).v[1]) :
                    CarriesValuesOf(r, merged_rows[m].geogrid)

(***************************************************************************)
(* C24                                                                     *)
(***************************************************************************)
\* two flat rows are equal as mappings: the same columns with the same values
SameRow(r1, r2) == Range(r1) = Range(r2)

\* no two members of the document, at any depth, flatten to the same column
ColumnsDistinct(doc) ==
    LET ms == MembersInOrder(doc.v, <<>>)
    IN \A i, j \in DOMAIN ms : ms[i][1] = ms[j][1] => i = j

\* a column of the row holds the last of the members that flatten to it
LastOfColumnWins(doc, row) ==
    LET ms == MembersInOrder(doc.v, <<>>)
    IN \A i \in DOMAIN ms :
          (\A j \in DOMAIN ms : ms[j][1] = ms[i][1] => j <= i)
            => Column(row, ms[i][1]) = <<ms[i][2]>>

\* C24: two documents that are equal as mappings are flattened to the same
\* columns with the same values, whatever the order of their keys and of the
\* keys of their nested mappings, also when a key parent__child stands next
\* to a nested mapping parent with a member child
C24_OrderIndependent ==
    \A i, j \in DOMAIN flat_out :
        SameValue(flat_obj[i], flat_obj[j]) => SameRow(flat_out[i], flat_out[j])

\* C24, amended: the rows are the same when no two members of the document
\* flatten to the same column; in general a column holds the member that
\* comes last in the document, so the row follows the order of the keys
C24_OrderIndependentOfDistinctColumns ==
    /\ \A i, j \in DOMAIN flat_out :
          SameValue(flat_obj[i], flat_obj[j]) /\ ColumnsDistinct(flat_obj[i])
            => SameRow(flat_out[i], flat_out[j])
    /\ \A i \in DOMAIN flat_out : LastOfColumnWins(flat_obj[i], flat_out[i])

\* {"a": {"b": 1, "c": 2}, "b": 7} and {"b": 7, "a": {"c": 2, "b": 1}} give
\* the same columns with the same values
C24_Witness ==
    /\ Len(flat_out) = 2
    /\ flat_obj[1] = JDict(<< << <<"a">>, JDict(<< << <<"b">>, JInt(1) >>,
                                                  << <<"c">>, JInt(2) >> >>) >>,
                              << <<"b">>, JInt(7) >> >>)
    /\ flat_obj[2] = JDict(<< << <<"b">>, JInt(7) >>,
                              << <<"a">>, JDict(<< << <<"c">>, JInt(2) >>,
                                                  << <<"b">>, JInt(1) >> >>) >> >>)
    /\ Range(flat_out[1]) =
          {<< <<"a">>, JStr(<<"{", Quote, "b", Quote, ":", "1", ",", Quote, "c", Quote, ":",
                              "2", "}">>) >>,
           << <<"a", "b">>, JInt(1) >>, << <<"a", "c">>, JInt(2) >>, << <<"b">>, JInt(7) >>}
    /\ Range(flat_out[2]) = Range(flat_out[1])
    /\ flat_out[1] # flat_out[2]

(***************************************************************************)
(* C25                                                                     *)
(***************************************************************************)
\* the candidate display strings of the entities that have a code, each with
\* the form the index files it under, when that form is not empty
IndexedNames ==
    UNION {IF c.code # ""
           THEN UNION {IF norm(r) # <<>> THEN {<<r, norm(r)>>} ELSE {} :
                         r \in Range(candidates(c))}
           ELSE {} : c \in Range(common_countries)}

\* C25: the index is built and read alike: for every entity with a code,
\* each of its candidate display strings (the default name and the values of
\* the name mapping) with a normalized form that is not empty, when it is an
\* answer of a cell, resolves to the code the index holds for that form and
\* is not listed as unresolved.
C25_BuildAndResolveAgree ==
    cell_open =>
       \A p \in IndexedNames :
          p[1] \in Range(LastCell.ans_list)
            => /\ p[1] \notin Range(unknown)
               /\ \E code \in Range(codes_resolved) : DictGet(name_to_code, p[2]) = <<code>>

====
